---- MODULE Spec2Model ----
(***************************************************************************)
(* Attendance_Dashboard backend: the employee-hierarchy builder            *)
(* (services/employee_hierarchy.py), the scope resolver built on it, and   *)
(* the endpoints that use them (routers/users.py, routers/files.py,        *)
(* routers/employee_files.py).                                             *)
(*                                                                         *)
(* Python values are modelled as follows.                                  *)
(*   str            a TLA+ string; None of an Optional[str] is "" (every   *)
(*                  use in the code is `x or ""` or a truthiness test).    *)
(*   Optional[list] a record [none, items]: NoneList is None, L(s) a list. *)
(*   dict (ordered) a sequence of entries carrying their key, in insertion *)
(*                  order (the code iterates dicts and takes first/last).  *)
(*   str.strip / str.lower / _norm_employee_code are tables over the       *)
(*   strings the model uses, so that "B@x.com" and "b@x.com", "102.0" and  *)
(*   "102", " N-2 " and "N-2" are different values until converted.        *)
(***************************************************************************)
EXTENDS Integers, Sequences, FiniteSets, TLC

VARIABLES
    files,          \* employee_uploaded_file + employee_uploaded_row: set of [id, uploaded_at, rows]
    next_id,        \* autoincrement of employee_uploaded_file.id
    now,            \* datetime.utcnow() as stored in a DATETIME column
    uploaded_rows,  \* uploaded_row.data of the attendance file being read
    user,           \* the users row of the caller (current_user)
    users,          \* the users table: a sequence of rows, in id order
    roles,          \* the names of the rows of the roles table
    app_config,     \* the app_config table: key -> value
    op,             \* the request handled last
    resp            \* what that request returned

vars == <<files, next_id, now, uploaded_rows, user, users, roles, app_config, op, resp>>

(***************************************************************************)
(* Bounds                                                                  *)
(***************************************************************************)
\* number of rows of a roster file
MaxEmp == 3
\* number of roster uploads in one behaviour
MaxUploads == 3
\* largest value of the clock
MaxClock == 2
\* number of rows of the attendance table
MaxRows == 3
\* number of rows of the attendance table behind the scope filter
MaxFilterRows == 2

Emp == 1..MaxEmp

(***************************************************************************)
(* Strings                                                                 *)
(***************************************************************************)

\* pairs <<s, s.strip()>> for the strings that carry outer whitespace
StripPairs ==
    { <<" A@x.com ", "A@x.com">>, <<" N-2 ", "N-2">>, <<" ", "">>,
      <<" zed ", "zed">>, <<" 101 ", "101">> }

\* pairs <<s, s.lower()>> for the strings that carry upper-case letters
LowerPairs ==
    { <<"A@x.com", "a@x.com">>, <<"B@x.com", "b@x.com">>, <<"A@X.COM", "a@x.com">>,
      <<"ANN", "ann">>, <<"Ann", "ann">>, <<"Bob", "bob">>, <<"Cy", "cy">>,
      <<"Dee", "dee">>, <<"Eve", "eve">>,
      <<"IT", "it">>, <<"QA", "qa">>, <<"HR", "hr">>,
      <<"Dev", "dev">>, <<"Ops", "ops">>, <<"Test", "test">>, <<"Pay", "pay">>,
      <<"CBL", "cbl">>, <<"CIPLC", "ciplc">>,
      <<"E101", "e101">>, <<"Yes", "yes">>, <<"Zed", "zed">>, <<"B", "b">>,
      <<"ACME", "acme">>,
      <<"ACME - HR", "acme - hr">>,
      <<"ACME - IT", "acme - it">>,
      <<"ACME - IT Support", "acme - it support">>,
      <<"CBL - HR", "cbl - hr">>,
      <<"CBL - IT", "cbl - it">>,
      <<"CBL - IT Support", "cbl - it support">>,
      <<"CIPLC - HR", "ciplc - hr">>,
      <<"CIPLC - IT", "ciplc - it">>,
      <<"CIPLC - IT Support", "ciplc - it support">>,
      <<"Confidence Batteries Limited", "confidence batteries limited">>,
      <<"Ctg", "ctg">>,
      <<"Development", "development">>,
      <<"Dhaka", "dhaka">>,
      <<"HR - CIPLC & CBL", "hr - ciplc & cbl">>,
      <<"IT Support", "it support">> }

\* pairs <<s, str(int(float(s)))>> for the numeric strings that change
FloatPairs ==
    { <<"101.0", "101">>, <<"102.0", "102">> }

\* the strings s for which s.replace(".", "").replace(" ", "").isdigit()
DigitStrings ==
    { "101", "102", "103", "104", "105", "999", "101.0", "102.0" }

\* a table of pairs as a function on its first components
TableOf(pairs) ==
    [s \in { p[1] : p \in pairs } |-> (CHOOSE p \in pairs : p[1] = s)[2]]

StripTable == TableOf(StripPairs)
LowerTable == TableOf(LowerPairs)
FloatTable == TableOf(FloatPairs)

\* s.strip()
Strip(s) == IF s \in DOMAIN StripTable THEN StripTable[s] ELSE s

\* s.lower()
Lower(s) == IF s \in DOMAIN LowerTable THEN LowerTable[s] ELSE s

\* _norm: (s or "").strip().lower()
Norm(s) == Lower(Strip(s))

\* _norm_employee_code
NormEmployeeCode(s0) ==
    LET s == Strip(s0) IN
    IF s = "" THEN ""
    ELSE IF Lower(s) \in DigitStrings
         THEN IF s \in DOMAIN FloatTable THEN FloatTable[s] ELSE s
         ELSE Lower(s)

\* "@" in s
HasAt(s) ==
    s \in { "a@x.com", "b@x.com", "c@x.com", "d@x.com", "e@x.com", "zz@x.com",
            "A@x.com", "B@x.com", "A@X.COM", " A@x.com ", "b@corp.com", "u@x.com" }

\* s.split("@")[0] if "@" in s else s
LocalPart(s) ==
    CASE s \in {"a@x.com"} -> "a"
      [] s \in {"b@x.com", "b@corp.com"} -> "b"
      [] s = "c@x.com" -> "c"
      [] s = "d@x.com" -> "d"
      [] s = "e@x.com" -> "e"
      [] s = "zz@x.com" -> "zz"
      [] s = "u@x.com" -> "u"
      [] OTHER -> s

\* rank of a string in Python's str ordering, for sorted()
StrRank(s) ==
    CASE s = "" -> 0
      [] s = "ACME" -> 1
      [] s = "ACME - HR" -> 2
      [] s = "ACME - IT" -> 3
      [] s = "ACME - IT Support" -> 4
      [] s = "CBL" -> 5
      [] s = "CBL - HR" -> 6
      [] s = "CBL - IT" -> 7
      [] s = "CBL - IT Support" -> 8
      [] s = "CIPLC" -> 9
      [] s = "CIPLC - HR" -> 10
      [] s = "CIPLC - IT" -> 11
      [] s = "CIPLC - IT Support" -> 12
      [] s = "CSEL" -> 13
      [] s = "CSEL - HR" -> 14
      [] s = "CSEL - IT" -> 15
      [] s = "Confidence Batteries Limited" -> 16
      [] s = "Ctg" -> 17
      [] s = "Dev" -> 18
      [] s = "Dev, Ops" -> 19
      [] s = "Development" -> 20
      [] s = "Dhaka" -> 21
      [] s = "HR" -> 22
      [] s = "HR - CIPLC & CBL" -> 23
      [] s = "IT" -> 24
      [] s = "IT Support" -> 25
      [] s = "Ops" -> 26
      [] s = "Pay" -> 27
      [] s = "QA" -> 28
      [] s = "Test" -> 29
      [] s = "Unknown" -> 30
      [] s = "it" -> 31
      [] OTHER -> 32

RECURSIVE SortedSeq(_)
\* sorted(S) for a set S of strings
SortedSeq(S) ==
    IF S = {} THEN <<>>
    ELSE LET lo == CHOOSE x \in S : \A y \in S : StrRank(x) <= StrRank(y)
         IN <<lo>> \o SortedSeq(S \ {lo})

\* the elements of a list, as a set
Range(s) == { s[i] : i \in DOMAIN s }

(***************************************************************************)
(* Optional lists                                                          *)
(***************************************************************************)
NoneList == [none |-> TRUE, items |-> <<>>]
L(s) == [none |-> FALSE, items |-> s]

\* isinstance(x, list) and len(x) > 0
NonEmptyList(x) == ~x.none /\ Len(x.items) > 0

\* x, None kept
OrEmptyKeepsNone(x) == x

\* x or []
OrEmpty(x) == IF x.none \/ Len(x.items) = 0 THEN L(<<>>) ELSE x

(***************************************************************************)
(* Roster rows and the hierarchy map                                       *)
(***************************************************************************)

\* _get_cell on a stored row: the cell of the column, stripped ("" if absent)
GetCell(data, column) == Strip(data[column])

\* hierarchy_map.get(k) is not None
Has(m, k) == \E i \in DOMAIN m : m[i].key = k

\* hierarchy_map[k]
Get(m, k) == m[CHOOSE i \in DOMAIN m : m[i].key = k]

\* set(hierarchy_map.keys())
Keys(m) == { m[i].key : i \in DOMAIN m }

\* d[k] = v on an ordered dict: a known key keeps its place, a new one is appended
Put(m, entry) ==
    IF Has(m, entry.key)
    THEN [i \in DOMAIN m |-> IF m[i].key = entry.key THEN entry ELSE m[i]]
    ELSE Append(m, entry)

\* the entry build_hierarchy_map stores for one row of file f
RowEntry(f, data) ==
    LET email == GetCell(data, "email") IN
    [ key |-> Lower(email),
      email |-> email,
      name |-> GetCell(data, "name"),
      employee_code |-> GetCell(data, "employee_code"),
      function |-> GetCell(data, "function"),
      department |-> GetCell(data, "department"),
      company |-> GetCell(data, "company"),
      supervisor_name |-> GetCell(data, "supervisor_name"),
      line_manager_employee_id |-> GetCell(data, "line_manager_employee_id"),
      source_file_id |-> f.id,
      level |-> "" ]

RECURSIVE EmailToRowFrom(_, _, _)
\* the loop over the rows of f that fills email_to_row, from row i on
EmailToRowFrom(f, i, acc) ==
    IF i > Len(f.rows) THEN acc
    ELSE IF GetCell(f.rows[i], "email") = ""
         THEN EmailToRowFrom(f, i + 1, acc)
         ELSE EmailToRowFrom(f, i + 1, Put(acc, RowEntry(f, f.rows[i])))

\* the indexes i of m whose assignments write code_to_email[k]
CodeWriters(m, k) ==
    { i \in DOMAIN m :
        \/ m[i].employee_code # "" /\ NormEmployeeCode(m[i].employee_code) = k
        \/ m[i].key = k }

\* k in code_to_email
InCodeToEmail(m, k) == CodeWriters(m, k) # {}

\* code_to_email[k]: the last assignment wins
CodeToEmail(m, k) ==
    m[CHOOSE i \in CodeWriters(m, k) : \A j \in CodeWriters(m, k) : j <= i].key

\* the first key (in dict order) whose name matches the supervisor name, "" if none
FirstByName(m, sup_name) ==
    LET hits == { i \in DOMAIN m : Lower(Strip(m[i].name)) = Lower(sup_name) } IN
    IF hits = {} THEN ""
    ELSE m[CHOOSE i \in hits : \A j \in hits : i <= j].key

\* parent_email of build_hierarchy_map; "" is None
ParentEmail(m, row) ==
    LET lm_id == Strip(row.line_manager_employee_id)
        sup_name == Strip(row.supervisor_name)
        lm_norm == NormEmployeeCode(lm_id)
    IN  IF lm_id # "" /\ lm_norm # "" /\ InCodeToEmail(m, lm_norm)
        THEN CodeToEmail(m, lm_norm)
        ELSE IF lm_id # "" /\ HasAt(lm_id) /\ Has(m, Strip(Lower(lm_id)))
        THEN Strip(Lower(lm_id))
        ELSE IF sup_name # ""
        THEN FirstByName(m, sup_name)
        ELSE ""

\* email_to_parent: key -> parent key ("" is None)
EmailToParent(m) == [e \in Keys(m) |-> ParentEmail(m, Get(m, e))]

\* child_map of build_hierarchy_map: parent key -> its children in dict order
ChildMap(m, email_to_parent) ==
    LET parents == { email_to_parent[e] : e \in Keys(m) } \cap Keys(m)
        kids(p) == SelectSeq(m, LAMBDA entry : email_to_parent[entry.key] = p)
    IN  [p \in parents |-> [i \in DOMAIN kids(p) |-> kids(p)[i].key]]

\* child_map.get(parent, [])
ChildList(child_map, parent) ==
    IF parent \in DOMAIN child_map THEN child_map[parent] ELSE <<>>

\* roots without the fallback
RootsNoFallback(m, email_to_parent) ==
    LET r == SelectSeq(m, LAMBDA entry :
                 email_to_parent[entry.key] = "" \/ ~Has(m, email_to_parent[entry.key]))
    IN  [i \in DOMAIN r |-> r[i].key]

\* roots, with the fallback to every record when none qualifies
Roots(m, email_to_parent) ==
    LET r == SelectSeq(m, LAMBDA entry :
                 email_to_parent[entry.key] = "" \/ ~Has(m, email_to_parent[entry.key]))
    IN  IF r = <<>> THEN [i \in DOMAIN m |-> m[i].key]
        ELSE [i \in DOMAIN r |-> r[i].key]

\* "N", "N-1", "N-2", ...
LevelName(n) == IF n = 0 THEN "N" ELSE "N-" \o ToString(n)

\* int(level.split("-")[1]) for the levels the builder produces; 0 for "N"
LevelSuffix(level) ==
    IF level = "N" THEN 0
    ELSE CHOOSE n \in 1..(MaxEmp + 1) : LevelName(n) = level

\* a next_level that does not count: every child is "N-1"
NextLevelStuck(level) == "N-1"

\* next_level
NextLevel(level) ==
    IF level = "N" THEN "N-1"
    ELSE IF \E n \in 1..(MaxEmp + 1) : LevelName(n) = level
         THEN "N-" \o ToString(LevelSuffix(level) + 1)
         ELSE "N-1"

RECURSIVE LevelBfs(_, _, _, _)
\* the while-loop over the deque q; seen is a set, level_map a function
LevelBfs(child_map, q, seen, level_map) ==
    IF q = <<>> THEN level_map
    ELSE LET email_key == Head(q)[1]
             level == Head(q)[2]
             kids == ChildList(child_map, email_key)
         IN  IF email_key \in seen
             THEN LevelBfs(child_map, Tail(q), seen, level_map)
             ELSE LevelBfs(child_map,
                           Tail(q) \o [i \in DOMAIN kids |-> <<kids[i], NextLevel(level)>>],
                           seen \cup {email_key},
                           (email_key :> level) @@ level_map)

\* a default one level higher for the records the BFS did not reach
DefaultLevelHigher == "N-1"

\* the level given to every record the BFS did not reach
DefaultLevel == "N-2"

\* level_map after the BFS and after the default for what it did not reach
LevelMap(m) ==
    LET email_to_parent == EmailToParent(m)
        roots == Roots(m, email_to_parent)
        bfs == LevelBfs(ChildMap(m, email_to_parent),
                        [i \in DOMAIN roots |-> <<roots[i], "N">>], {}, <<>>)
    IN  [e \in Keys(m) |-> IF e \in DOMAIN bfs THEN bfs[e] ELSE DefaultLevel]

RECURSIVE EmailToRowOfFiles(_, _, _)
\* the loop `for f in files` that fills email_to_row, from file k of the list on
EmailToRowOfFiles(fs, k, acc) ==
    IF k > Len(fs) THEN acc
    ELSE EmailToRowOfFiles(fs, k + 1, EmailToRowFrom(fs[k], 1, acc))

\* build_hierarchy_map once the query has returned the list fs of files
BuildHierarchyMap(fs) ==
    IF fs = <<>> THEN <<>>
    ELSE LET m == EmailToRowOfFiles(fs, 1, <<>>)
             level_map == LevelMap(m)
         IN  [i \in DOMAIN m |-> [m[i] EXCEPT !.level = level_map[m[i].key]]]

\* the query without LIMIT 1: every stored file, newest first
AllFilesNewestFirst ==
    { s \in [1..Cardinality(files) -> files] :
        /\ \A i, j \in DOMAIN s : i # j => s[i] # s[j]
        /\ \A i, j \in DOMAIN s : i < j => s[i].uploaded_at >= s[j].uploaded_at }

\* what the query of build_hierarchy_map(db, None) may return:
\* ORDER BY uploaded_at DESC LIMIT 1 (any one of the latest when two tie)
LatestFiles ==
    IF files = {} THEN { <<>> }
    ELSE { <<f>> : f \in { g \in files : \A h \in files : h.uploaded_at <= g.uploaded_at } }

\* every possible result of build_hierarchy_map(db, None) in the current state
LatestMaps == { BuildHierarchyMap(fs) : fs \in LatestFiles }

(***************************************************************************)
(* Subordinates                                                            *)
(***************************************************************************)

\* parent_email of _build_child_map; "" is None
ChildMapParentEmail(hm, row) ==
    LET lm_id == Strip(row.line_manager_employee_id)
        sup_name == Strip(row.supervisor_name)
        lm_norm == NormEmployeeCode(lm_id)
        byCode == { i \in DOMAIN hm :
                      \/ hm[i].employee_code # "" /\ NormEmployeeCode(hm[i].employee_code) = lm_norm
                      \/ Lower(hm[i].key) = lm_norm }
        byName == { i \in DOMAIN hm : Norm(hm[i].name) = Lower(sup_name) }
    IN  IF lm_id # "" /\ lm_norm # "" /\ byCode # {}
        THEN hm[CHOOSE i \in byCode : \A j \in byCode : j <= i].key
        ELSE IF lm_id # "" /\ HasAt(lm_id) /\ Has(hm, Lower(lm_id))
        THEN Lower(lm_id)
        ELSE IF sup_name # "" /\ byName # {}
        THEN hm[CHOOSE i \in byName : \A j \in byName : i <= j].key
        ELSE ""

\* _build_child_map: parent key -> list of child keys, only for parents that have children
BuildChildMap(hm) ==
    LET parent == [e \in Keys(hm) |-> ChildMapParentEmail(hm, Get(hm, e))]
        parents == { parent[e] : e \in Keys(hm) } \cap Keys(hm)
        kids(p) == SelectSeq(hm, LAMBDA entry : parent[entry.key] = p)
    IN  [p \in parents |-> [i \in DOMAIN kids(p) |-> kids(p)[i].key]]

RECURSIVE SubordinateBfs(_, _, _)
\* the while-loop of get_subordinate_emails over the deque q
SubordinateBfs(child_map, q, out) ==
    IF q = <<>> THEN out
    ELSE LET kids == ChildList(child_map, Head(q))
             fresh == SelectSeq(kids, LAMBDA c : c \notin out)
         IN  SubordinateBfs(child_map, Tail(q) \o fresh, out \cup Range(kids))

\* get_subordinate_emails without the branch for level "N"
GetSubordinateEmailsNoTop(hm, child_map, employee_email) ==
    LET email_lower == Lower(Strip(employee_email)) IN
    IF hm = <<>> \/ employee_email = "" THEN {}
    ELSE IF ~Has(hm, email_lower) THEN {email_lower}
    ELSE SubordinateBfs(child_map, <<email_lower>>, {email_lower})

\* get_subordinate_emails
GetSubordinateEmails(hm, child_map, employee_email) ==
    LET email_lower == Lower(Strip(employee_email)) IN
    IF hm = <<>> \/ employee_email = "" THEN {}
    ELSE IF ~Has(hm, email_lower) THEN {email_lower}
    ELSE IF Strip(Get(hm, email_lower).level) = "N" THEN Keys(hm)
    ELSE SubordinateBfs(child_map, <<email_lower>>, {email_lower})

(***************************************************************************)
(* Inputs: roster files                                                    *)
(***************************************************************************)

\* the cells of roster row i that identify the employee
EmailCell(i) == <<"a@x.com", "B@x.com", "c@x.com", "d@x.com", "e@x.com">>[i]
NameCell(i) == <<"Ann", "Bob", "Cy", "Dee", "Eve">>[i]
CodeCell(i) == <<"101", "102.0", "103", "104", "105">>[i]

\* how another row names employee j as its manager: by id, by name
LmRef(j) == <<"101.0", "102", "103", "104", "105">>[j]
SupRef(j) == <<"ANN", "Bob", "Cy", "Dee", "Eve">>[j]

NoManager == [lm |-> "", sup |-> ""]

\* the manager cells a row may carry: none, an id nobody has (alone, or with the name
\* of employee 1 to fall back on), the e-mail of employee 1, the id of any employee
MgrRefs ==
    { NoManager, [lm |-> "999", sup |-> ""], [lm |-> "999", sup |-> SupRef(1)],
      [lm |-> "A@X.COM", sup |-> ""] }
    \cup { [lm |-> LmRef(j), sup |-> ""] : j \in Emp }

\* function / department / company of employee i when the roster does not vary them
Profile(i) ==
    << [function |-> "IT", department |-> "Dev", company |-> "CBL"],
       [function |-> "IT", department |-> "Ops", company |-> "CIPLC"],
       [function |-> "QA", department |-> "Test", company |-> "CBL"],
       [function |-> "HR", department |-> "Pay", company |-> "CIPLC"],
       [function |-> "HR", department |-> "Pay", company |-> "CBL"] >>[i]

\* the stored data of roster row i
Row(i, ref, prof) ==
    [ email |-> EmailCell(i), name |-> NameCell(i), employee_code |-> CodeCell(i),
      function |-> prof.function, department |-> prof.department, company |-> prof.company,
      supervisor_name |-> ref.sup, line_manager_employee_id |-> ref.lm ]

\* rosters that differ in their reporting lines
TreeRosters ==
    { [i \in Emp |-> Row(i, ref[i], Profile(i))] : ref \in [Emp -> MgrRefs] }

\* the users row of an administrator
AdminUser ==
    [ role |-> "admin", email |-> "root@x.com", username |-> "root",
      employee_email |-> "", data_scope_level |-> "",
      allowed_functions |-> NoneList, allowed_departments |-> NoneList,
      allowed_companies |-> NoneList ]

(***************************************************************************)
(* Requests that read the hierarchy                                        *)
(***************************************************************************)

\* build_hierarchy_map(db, None): the query, then the build
BuildHierarchy ==
    /\ \E hm \in LatestMaps : resp' = hm
    /\ op' = "hierarchy"
    /\ UNCHANGED <<files, next_id, now, uploaded_rows, user, users, roles, app_config>>

\* get_subordinate_emails(hierarchy_map, _build_child_map(hierarchy_map), employee_email)
CallGetSubordinateEmails ==
    /\ \E hm \in LatestMaps :
          LET child_map == BuildChildMap(hm) IN
          \E e \in { EmailCell(1), EmailCell(2), "zz@x.com" } :
             resp' = [ hierarchy_map |-> hm,
                       child_map |-> child_map,
                       employee_email |-> e,
                       out |-> GetSubordinateEmails(hm, child_map, e) ]
    /\ op' = "subordinates"
    /\ UNCHANGED <<files, next_id, now, uploaded_rows, user, users, roles, app_config>>

\* one stored roster with any reporting lines, nothing requested yet
InitHier ==
    /\ \E r \in TreeRosters : files = { [id |-> 1, uploaded_at |-> 0, rows |-> r] }
    /\ next_id = 2
    /\ now = 0
    /\ uploaded_rows = {}
    /\ user = AdminUser
    /\ users = <<>>
    /\ roles = {}
    /\ app_config = <<>>
    /\ op = "init"
    /\ resp = <<>>

NextHier == BuildHierarchy \/ CallGetSubordinateEmails

SpecHier == InitHier /\ [][NextHier]_vars

(***************************************************************************)
(* The roster store: uploads and deletions                                 *)
(***************************************************************************)

\* the rosters an upload may carry: two that overlap in one employee, and one row
\* without an e-mail next to a row with one
UploadRosters ==
    { << Row(1, NoManager, Profile(1)), Row(2, [lm |-> LmRef(1), sup |-> ""], Profile(2)) >>,
      << Row(2, NoManager, Profile(2)), Row(3, [lm |-> LmRef(2), sup |-> ""], Profile(3)) >>,
      << [Row(1, NoManager, Profile(1)) EXCEPT !.email = " "], Row(3, NoManager, Profile(1)) >> }

\* upload of an employee list: a new file row with the next id, uploaded_at from the
\* column default (the clock), and the rows of the workbook
UploadEmployeeFile ==
    /\ next_id <= MaxUploads
    /\ \E r \in UploadRosters :
          files' = files \cup { [id |-> next_id, uploaded_at |-> now, rows |-> r] }
    /\ next_id' = next_id + 1
    /\ op' = "upload"
    /\ resp' = [id |-> next_id]
    /\ UNCHANGED <<now, uploaded_rows, user, users, roles, app_config>>

\* the clock of the DATETIME column moves on
Tick ==
    /\ now < MaxClock
    /\ now' = now + 1
    /\ UNCHANGED <<files, next_id, uploaded_rows, user, users, roles, app_config, op, resp>>

\* DELETE /employee-files/: every listed file that exists is deleted
DeleteEmployeeFiles ==
    /\ files # {}
    /\ \E file_ids \in SUBSET (1..MaxUploads) :
          /\ files' = { f \in files : f.id \notin file_ids }
          /\ resp' = [deleted_count |-> Cardinality({ f \in files : f.id \in file_ids })]
    /\ op' = "delete"
    /\ UNCHANGED <<next_id, now, uploaded_rows, user, users, roles, app_config>>

\* an empty store
InitFiles ==
    /\ files = {}
    /\ next_id = 1
    /\ now = 0
    /\ uploaded_rows = {}
    /\ user = AdminUser
    /\ users = <<>>
    /\ roles = {}
    /\ app_config = <<>>
    /\ op = "init"
    /\ resp = <<>>

NextFiles == UploadEmployeeFile \/ Tick \/ DeleteEmployeeFiles \/ BuildHierarchy

SpecFiles == InitFiles /\ [][NextFiles]_vars

(***************************************************************************)
(* Scope resolver                                                          *)
(***************************************************************************)

\* [x] if x else []
ListIf(x) == IF x # "" THEN L(<<x>>) ELSE L(<<>>)

\* the departments of the rows of one function, a blank department cell included
DeptsUnderFunctionWithBlank(hm, func) ==
    { Strip(hm[i].department) : i \in { j \in DOMAIN hm : Strip(hm[j].function) = func } }

\* the function == func rows' departments, for the N-1 branches
DeptsUnderFunction(hm, func) ==
    { Strip(hm[i].department) : i \in { j \in DOMAIN hm :
          Strip(hm[j].function) = func /\ Strip(hm[j].department) # "" } }

\* scope_for_user
ScopeForUser(employee_email, data_scope_level, hm) ==
    LET email_lower == Lower(Strip(employee_email))
        level == Strip(data_scope_level)
        everything(lvl) == [ all |-> TRUE, allowed_functions |-> NoneList,
                             allowed_departments |-> NoneList, data_scope_level |-> lvl ]
    IN  IF employee_email = "" \/ data_scope_level = "" THEN everything("")
        ELSE IF ~Has(hm, email_lower) THEN everything(data_scope_level)
        ELSE IF level = "N" THEN everything("N")
        ELSE LET emp == Get(hm, email_lower)
                 func == Strip(emp.function)
                 dept == Strip(emp.department)
             IN  IF level = "N-1"
                 THEN [ all |-> FALSE,
                        allowed_functions |-> ListIf(func),
                        allowed_departments |-> L(SortedSeq(DeptsUnderFunction(hm, func))),
                        data_scope_level |-> "N-1" ]
                 ELSE [ all |-> FALSE,
                        allowed_functions |-> ListIf(func),
                        allowed_departments |-> ListIf(dept),
                        data_scope_level |-> level ]

\* { "all": True, allowed_* : None }
AllScope ==
    [ all |-> TRUE, allowed_functions |-> NoneList,
      allowed_departments |-> NoneList, allowed_companies |-> NoneList ]

\* a role for which get_effective_scope returns everything at once
SeesAllByRoleAdminOnly(u) == u.role = "admin"

\* the two role tests that open get_effective_scope
SeesAllByRole(u) == u.role = "admin" \/ u.role = "N"

\* a scope that lets nothing through
NoLinkageScopeDeny ==
    [ all |-> FALSE, allowed_functions |-> L(<<>>),
      allowed_departments |-> L(<<>>), allowed_companies |-> L(<<>>) ]

\* the last return of get_effective_scope: no override, no usable employee linkage
NoLinkageScope == AllScope

RECURSIVE CompaniesOfFunctions(_, _, _, _)
\* the loop of get_effective_scope that collects, in dict order and once each, the
\* companies of the rows whose function is in the list funcs, from entry i on
CompaniesOfFunctions(hm, i, funcs, companies) ==
    IF i > Len(hm) THEN companies
    ELSE LET c == Strip(hm[i].company) IN
         IF Strip(hm[i].function) \in Range(funcs) /\ c # "" /\ c \notin Range(companies)
         THEN CompaniesOfFunctions(hm, i + 1, funcs, Append(companies, c))
         ELSE CompaniesOfFunctions(hm, i + 1, funcs, companies)

\* a fallback that never finds the record
EmployeeOnlyNever(emp_email, hm) == FALSE

\* the fallback for a user without a data_scope_level: the roster has a
\* record for the employee e-mail
EmployeeOnly(emp_email, hm) == emp_email # "" /\ Has(hm, Lower(emp_email))

\* get_effective_scope
GetEffectiveScope(u, hm) ==
    LET af == u.allowed_functions
        ad == u.allowed_departments
        ac == u.allowed_companies
        emp_email == Strip(u.employee_email)
        data_scope_level == Strip(u.data_scope_level)
    IN  IF SeesAllByRole(u) THEN AllScope
        ELSE IF NonEmptyList(af)
        THEN [ all |-> FALSE, allowed_functions |-> af,
               allowed_departments |-> OrEmpty(ad), allowed_companies |-> OrEmpty(ac) ]
        ELSE IF NonEmptyList(ad)
        THEN [ all |-> FALSE, allowed_functions |-> OrEmpty(af),
               allowed_departments |-> ad, allowed_companies |-> OrEmpty(ac) ]
        ELSE IF NonEmptyList(ac)
        THEN [ all |-> FALSE, allowed_functions |-> OrEmpty(af),
               allowed_departments |-> OrEmpty(ad), allowed_companies |-> ac ]
        ELSE IF emp_email # "" /\ data_scope_level # ""
        THEN LET scope == ScopeForUser(emp_email, data_scope_level, hm) IN
             IF scope.all THEN AllScope
             ELSE LET has_emp == hm # <<>> /\ Has(hm, Lower(emp_email))
                      found == IF has_emp /\ NonEmptyList(scope.allowed_functions)
                               THEN CompaniesOfFunctions(hm, 1, scope.allowed_functions.items, <<>>)
                               ELSE <<>>
                      companies ==
                          IF has_emp /\ found = <<>>
                                /\ Strip(Get(hm, Lower(emp_email)).company) # ""
                          THEN <<Strip(Get(hm, Lower(emp_email)).company)>>
                          ELSE found
                  IN  [ all |-> FALSE,
                        allowed_functions |-> OrEmpty(scope.allowed_functions),
                        allowed_departments |-> OrEmpty(scope.allowed_departments),
                        allowed_companies |-> L(companies) ]
        ELSE IF EmployeeOnly(emp_email, hm)
        THEN LET emp == Get(hm, Lower(emp_email)) IN
             [ all |-> FALSE,
               allowed_functions |-> ListIf(Strip(emp.function)),
               allowed_departments |-> ListIf(Strip(emp.department)),
               allowed_companies |-> ListIf(Strip(emp.company)) ]
        ELSE NoLinkageScope

\* x if isinstance(x, list) else None
ListOrNone(x) == IF x.none THEN NoneList ELSE x

\* get_my_scope: the scope fields of the response of GET /users/me/scope
GetMyScope(u, hm) ==
    LET af == u.allowed_functions
        ad == u.allowed_departments
        ac == u.allowed_companies
    IN  IF u.role = "admin"
        THEN [ all |-> TRUE, allowed_functions |-> NoneList, allowed_departments |-> NoneList,
               allowed_companies |-> NoneList, data_scope_level |-> "" ]
        ELSE IF NonEmptyList(af)
        THEN [ all |-> FALSE, allowed_functions |-> af, allowed_departments |-> ListOrNone(ad),
               allowed_companies |-> ListOrNone(ac), data_scope_level |-> u.data_scope_level ]
        ELSE IF NonEmptyList(ad)
        THEN [ all |-> FALSE, allowed_functions |-> ListOrNone(af), allowed_departments |-> ad,
               allowed_companies |-> ListOrNone(ac), data_scope_level |-> u.data_scope_level ]
        ELSE IF NonEmptyList(ac)
        THEN [ all |-> FALSE, allowed_functions |-> ListOrNone(af),
               allowed_departments |-> ListOrNone(ad),
               allowed_companies |-> ac, data_scope_level |-> u.data_scope_level ]
        ELSE LET out == ScopeForUser(u.employee_email, u.data_scope_level, hm) IN
             [ all |-> out.all, allowed_functions |-> out.allowed_functions,
               allowed_departments |-> out.allowed_departments,
               allowed_companies |-> NoneList, data_scope_level |-> out.data_scope_level ]

(***************************************************************************)
(* Inputs and requests of the scope resolver                               *)
(***************************************************************************)

Attr(f, d, c) == [function |-> f, department |-> d, company |-> c]

\* what the roster may say about employee 1, the employee the caller may be linked to
OwnProfiles ==
    { Attr("IT", "Dev", "CBL"), Attr("IT", "", ""), Attr("", "Dev", "CBL"),
      Attr("", "", ""), Attr("QA", "Test", "CIPLC") }

\* what the roster may say about the other employees
OtherProfiles ==
    { Attr("IT", "Ops", "CIPLC"), Attr("QA", "Test", "CBL"), Attr("", "Pay", "CIPLC") }

\* rosters that differ in function / department / company
ScopeRosters ==
    { [i \in Emp |-> Row(i, NoManager, prof[i])] :
        prof \in { q \in [Emp -> OwnProfiles \cup OtherProfiles] :
                     q[1] \in OwnProfiles /\ \A i \in Emp \ {1} : q[i] \in OtherProfiles } }

\* the override lists a users row may carry: (functions, departments, companies)
Overrides ==
    { <<NoneList, NoneList, NoneList>>,
      <<L(<<>>), L(<<>>), L(<<>>)>>,
      <<L(<<"QA", "HR">>), NoneList, L(<<>>)>>,
      <<L(<<>>), L(<<"Ops">>), NoneList>>,
      <<NoneList, L(<<>>), L(<<"CIPLC">>)>> }

\* the users rows of the callers
ScopeUsers ==
    { [ role |-> r, email |-> "u@x.com", username |-> "u",
        employee_email |-> e, data_scope_level |-> lvl,
        allowed_functions |-> o[1], allowed_departments |-> o[2],
        allowed_companies |-> o[3] ] :
        r \in {"admin", "N", "user"},
        e \in {"", " A@x.com ", "zz@x.com"},
        lvl \in {"", "N", "N-1", "N-2", "N-3"},
        o \in Overrides }

\* weekly_analysis, as far as the scope goes: scope = get_effective_scope(db, current_user)
WeeklyScope ==
    /\ \E hm \in LatestMaps : resp' = GetEffectiveScope(user, hm)
    /\ op' = "effective_scope"
    /\ UNCHANGED <<files, next_id, now, uploaded_rows, user, users, roles, app_config>>

\* GET /users/me/scope
MyScope ==
    /\ \E hm \in LatestMaps : resp' = GetMyScope(user, hm)
    /\ op' = "my_scope"
    /\ UNCHANGED <<files, next_id, now, uploaded_rows, user, users, roles, app_config>>

\* any caller, over no roster or one stored roster
InitScope ==
    /\ \/ files = {}
       \/ \E r \in ScopeRosters : files = { [id |-> 1, uploaded_at |-> 0, rows |-> r] }
    /\ next_id = 2
    /\ now = 0
    /\ uploaded_rows = {}
    /\ user \in ScopeUsers
    /\ users = <<>>
    /\ roles = {}
    /\ app_config = <<>>
    /\ op = "init"
    /\ resp = <<>>

NextScope == WeeklyScope \/ MyScope

SpecScope == InitScope /\ [][NextScope]_vars

(***************************************************************************)
(* Raw attendance rows: who may see which                                  *)
(***************************************************************************)

\* Optional[set]
NoneSet == [none |-> TRUE, items |-> {}]
SomeSet(x) == [none |-> FALSE, items |-> x]

\* x or None, for a set
SetOrNone(x) == IF x = {} THEN NoneSet ELSE SomeSet(x)

\* (None, None, None, None): no filter
NoFilter == [codes |-> NoneSet, emails |-> NoneSet, departments |-> NoneSet, functions |-> NoneSet]

\* level.startswith("N-")
StartsWithNDash(level) == \E n \in 1..(MaxEmp + 1) : LevelName(n) = level

\* get_emails_and_codes_in_functions: <<emails, codes>>
GetEmailsAndCodesInFunctions(hm, allowed_functions) ==
    LET func_set == { Lower(Strip(f)) : f \in { g \in Range(allowed_functions) : Strip(g) # "" } }
        hit == { i \in DOMAIN hm :
                   Lower(Strip(hm[i].function)) # "" /\ Lower(Strip(hm[i].function)) \in func_set }
    IN  IF hm = <<>> \/ allowed_functions = <<>> THEN << {}, {} >>
        ELSE << { Lower(hm[i].key) : i \in hit },
                { Lower(Strip(hm[i].employee_code)) : i \in { j \in hit : Strip(hm[j].employee_code) # "" } } >>

\* the key of the caller's roster record: by employee_email (or email), by username,
\* by the part of the username before "@"; "" when there is none
AttendanceKey(u, hm) ==
    LET emp_email == Lower(Strip(IF u.employee_email # "" THEN u.employee_email ELSE u.email))
        emp_username == Lower(Strip(u.username))
        username_part == LocalPart(emp_username)
        byPart == { i \in DOMAIN hm : LocalPart(hm[i].key) = username_part }
    IN  IF Has(hm, emp_email) THEN emp_email
        ELSE IF Has(hm, emp_username) THEN emp_username
        ELSE IF username_part # "" /\ byPart # {}
        THEN hm[CHOOSE i \in byPart : \A j \in byPart : i <= j].key
        ELSE ""

\* the last part of get_allowed_employee_codes_for_attendance: self + subordinates
SubtreeFilter(hm, key) ==
    LET allowed == GetSubordinateEmails(hm, BuildChildMap(hm), key)
        known == { e \in allowed : Has(hm, e) }
        codes == { Lower(Strip(Get(hm, e).employee_code)) :
                     e \in { x \in known : Strip(Get(hm, x).employee_code) # "" } }
        emails == { Lower(e) : e \in allowed }
        departments == { Lower(Strip(Get(hm, e).department)) : e \in known } \ {""}
        functions == { Lower(Strip(Get(hm, e).function)) : e \in known } \ {""}
    IN  IF codes = {} /\ emails = {} THEN NoFilter
        ELSE [ codes |-> SomeSet(codes), emails |-> SomeSet(emails),
               departments |-> SetOrNone(departments), functions |-> SetOrNone(functions) ]

\* the filter of everybody in the functions funcs, or no filter when nobody is
FunctionFilter(hm, funcs) ==
    LET ec == GetEmailsAndCodesInFunctions(hm, funcs) IN
    [ codes |-> SomeSet(ec[2]), emails |-> SomeSet(ec[1]), departments |-> NoneSet, functions |-> NoneSet ]

\* get_allowed_employee_codes_for_attendance
GetAllowedEmployeeCodesForAttendance(u, hm) ==
    LET level == Strip(u.data_scope_level)
        is_n2_or_deeper == level # "" /\ StartsWithNDash(level) /\ level \notin {"N", "N-1"}
        af == u.allowed_functions
        func_names == SelectSeq([i \in DOMAIN af.items |-> Strip(af.items[i])], LAMBDA x : x # "")
        by_override == GetEmailsAndCodesInFunctions(hm, func_names)
        key == AttendanceKey(u, hm)
    IN  IF u.role = "admin" THEN NoFilter
        ELSE IF level = "N" \/ u.role = "N" THEN NoFilter
        ELSE IF hm = <<>> THEN NoFilter
        ELSE IF NonEmptyList(af) /\ ~is_n2_or_deeper /\ func_names # <<>>
                  /\ (by_override[1] # {} \/ by_override[2] # {})
        THEN FunctionFilter(hm, func_names)
        ELSE IF key = "" THEN NoFilter
        ELSE IF level = "N-1"
        THEN LET func == Strip(Get(hm, key).function)
                 ec == GetEmailsAndCodesInFunctions(hm, <<func>>)
             IN  IF func = "" THEN NoFilter
                 ELSE IF ec[1] = {} /\ ec[2] = {} THEN NoFilter
                 ELSE FunctionFilter(hm, <<func>>)
        ELSE SubtreeFilter(hm, key)

\* v.split(",")[0].strip() of a department cell
FirstOfCommaList(v) == IF v = "Dev,Ops" THEN "Dev" ELSE v

\* _row_employee_code, _row_email, _row_department, _row_function of files.py
RowEmployeeCode(row) == Lower(Strip(row.employee_code))
RowEmail(row) == Lower(Strip(row.email))
RowDepartment(row) == Lower(FirstOfCommaList(Strip(row.department)))
RowFunction(row) == Lower(Strip(row.function))

\* x or set()
OrEmptySet(x) == IF x.none THEN {} ELSE x.items

\* get_file_detail: the rows it returns, given the filter
FileDetailRows(rows, allowed) ==
    IF allowed.codes.none /\ allowed.emails.none THEN rows
    ELSE { r \in rows :
             /\ \/ RowEmployeeCode(r) # "" /\ RowEmployeeCode(r) \in OrEmptySet(allowed.codes)
                \/ RowEmail(r) # "" /\ RowEmail(r) \in OrEmptySet(allowed.emails)
             /\ ~ (/\ OrEmptySet(allowed.departments) # {} /\ RowDepartment(r) # ""
                   /\ RowDepartment(r) \notin OrEmptySet(allowed.departments))
             /\ ~ (/\ OrEmptySet(allowed.functions) # {} /\ RowFunction(r) # ""
                   /\ RowFunction(r) \notin OrEmptySet(allowed.functions)) }

\* the employee code of employee i as the attendance export writes it
AttendanceCode(i) == <<"101", "102.0", "103", "104", "105">>[i]

\* the attendance file: for every employee a row by code and a row by e-mail with the
\* roster's function and department, a row by code with some other function and
\* department, and one row with a list of departments
AttendanceRows ==
    { [ employee_code |-> AttendanceCode(i), email |-> "",
        department |-> Profile(j).department, function |-> Profile(j).function ] :
        i \in Emp, j \in Emp }
    \cup { [ employee_code |-> "", email |-> EmailCell(i),
             department |-> Profile(i).department, function |-> Profile(i).function ] : i \in Emp }
    \cup { [ employee_code |-> "", email |-> EmailCell(i), department |-> "", function |-> "" ] : i \in Emp }
    \cup { [ employee_code |-> "101", email |-> "", department |-> "Dev,Ops", function |-> "IT" ] }

\* rosters whose rows name no manager or name one by id
LineRosters ==
    { [i \in Emp |-> Row(i, ref[i], Profile(i))] :
        ref \in [Emp -> {NoManager} \cup { [lm |-> LmRef(j), sup |-> ""] : j \in Emp }] }

\* how a users row may point at the roster: <<employee_email, email, username>>
Links ==
    { <<"a@x.com", "u@x.com", "u">>, <<"", "B@x.com", "bob">>,
      <<"", "u@x.com", "c">>, <<"", "u@x.com", "u">> }

\* the users rows of the callers of the file-detail endpoint
AttendanceUsers ==
    { [ role |-> r, email |-> k[2], username |-> k[3],
        employee_email |-> k[1], data_scope_level |-> lvl,
        allowed_functions |-> f, allowed_departments |-> NoneList,
        allowed_companies |-> NoneList ] :
        r \in {"admin", "N", "N-2"},
        k \in Links,
        lvl \in {"", "N", "N-1", "N-2"},
        f \in {NoneList, L(<<"QA">>)} }

\* get_allowed_employee_codes_for_attendance(db, current_user)
AllowedCodes ==
    /\ \E hm \in LatestMaps : resp' = GetAllowedEmployeeCodesForAttendance(user, hm)
    /\ op' = "allowed_codes"
    /\ UNCHANGED <<files, next_id, now, uploaded_rows, user, users, roles, app_config>>

\* GET /files/{file_id}
GetFileDetail ==
    /\ \E hm \in LatestMaps :
          resp' = FileDetailRows(uploaded_rows, GetAllowedEmployeeCodesForAttendance(user, hm))
    /\ op' = "file_detail"
    /\ UNCHANGED <<files, next_id, now, uploaded_rows, user, users, roles, app_config>>

\* any caller, one stored roster, one attendance file
InitAttendance ==
    /\ \E r \in LineRosters : files = { [id |-> 1, uploaded_at |-> 0, rows |-> r] }
    /\ next_id = 2
    /\ now = 0
    /\ uploaded_rows = AttendanceRows
    /\ user \in AttendanceUsers
    /\ users = <<>>
    /\ roles = {}
    /\ app_config = <<>>
    /\ op = "init"
    /\ resp = <<>>

NextAttendance == AllowedCodes \/ GetFileDetail

SpecAttendance == InitAttendance /\ [][NextAttendance]_vars

(***************************************************************************)
(* POST /users/sync-roles-from-hierarchy                                   *)
(***************************************************************************)

\* _is_n_level
IsNLevel(level) ==
    /\ level # ""
    /\ \/ Strip(level) = "N"
       \/ \E n \in 1..(MaxEmp + 1) : LevelName(n) = Strip(level)

\* the three lists of scope_to_persist_for_user
Persist(companies, functions, departments) ==
    [ allowed_companies |-> companies, allowed_functions |-> functions,
      allowed_departments |-> departments ]

\* scope_to_persist_for_user with the N-1 branch left out
ScopeToPersistOwnOnly(hm, employee_email, level0) ==
    LET email_lower == Lower(Strip(employee_email)) IN
    IF email_lower = "" \/ ~Has(hm, email_lower) \/ Strip(level0) = "N"
    THEN Persist(L(<<>>), L(<<>>), L(<<>>))
    ELSE LET emp == Get(hm, email_lower) IN
         Persist(ListIf(Strip(emp.company)), ListIf(Strip(emp.function)),
                 ListIf(Strip(emp.department)))

\* scope_to_persist_for_user
ScopeToPersistForUser(hm, employee_email, level0) ==
    LET email_lower == Lower(Strip(employee_email))
        level == Strip(level0)
    IN  IF email_lower = "" \/ ~Has(hm, email_lower)
        THEN Persist(L(<<>>), L(<<>>), L(<<>>))
        ELSE LET emp == Get(hm, email_lower)
                 func == Strip(emp.function)
                 dept == Strip(emp.department)
                 company == Strip(emp.company)
                 same == { i \in DOMAIN hm : Strip(hm[i].function) = func }
                 depts_under_function == { Strip(hm[i].department) : i \in same } \ {""}
                 companies_with_function == { Strip(hm[i].company) : i \in same } \ {""}
             IN  IF level = "N" THEN Persist(L(<<>>), L(<<>>), L(<<>>))
                 ELSE IF level = "N-1"
                 THEN Persist(L(SortedSeq(companies_with_function)), ListIf(func),
                              L(SortedSeq(depts_under_function)))
                 ELSE Persist(ListIf(company), ListIf(func), ListIf(dept))

\* _ensure_default_roles
EnsureDefaultRoles(rs) == rs \cup {"admin", "user", "N", "N-1", "N-2"}

\* (user.employee_email or user.email or "").strip()
SyncEmail(u) == Strip(IF u.employee_email # "" THEN u.employee_email ELSE u.email)

\* the loop body of sync_roles_from_hierarchy reaches its assignments for u
SyncTouches(u, hm) ==
    /\ u.role # "admin"
    /\ SyncEmail(u) # ""
    /\ Has(hm, Lower(SyncEmail(u)))
    /\ IsNLevel(Strip(Get(hm, Lower(SyncEmail(u))).level))

\* the row of u after the loop body of sync_roles_from_hierarchy
SyncUser(u, hm) ==
    IF ~SyncTouches(u, hm) THEN u
    ELSE LET emp_email == SyncEmail(u)
             level == Strip(Get(hm, Lower(emp_email)).level)
             role_or_scope_changed == u.role # level \/ Strip(u.data_scope_level) # level
             scope == ScopeToPersistForUser(hm, emp_email, level)
         IN  [ u EXCEPT
                 !.employee_email = IF Strip(u.employee_email) = "" THEN u.email ELSE @,
                 !.role = IF role_or_scope_changed THEN level ELSE @,
                 !.data_scope_level = IF role_or_scope_changed THEN level ELSE @,
                 !.allowed_companies = OrEmpty(scope.allowed_companies),
                 !.allowed_functions = OrEmpty(scope.allowed_functions),
                 !.allowed_departments = OrEmpty(scope.allowed_departments) ]

\* POST /users/sync-roles-from-hierarchy
SyncRolesFromHierarchy ==
    /\ \E hm \in LatestMaps :
          IF hm = <<>>
          THEN /\ roles' = EnsureDefaultRoles(roles)
               /\ users' = users
               /\ resp' = [updated |-> 0]
          ELSE /\ roles' = EnsureDefaultRoles(roles)
                              \cup { lvl \in { Strip(hm[i].level) : i \in DOMAIN hm } : IsNLevel(lvl) }
               /\ users' = [i \in DOMAIN users |-> SyncUser(users[i], hm)]
               /\ resp' = [updated |-> Cardinality({ i \in DOMAIN users : SyncTouches(users[i], hm) })]
    /\ op' = "sync"
    /\ UNCHANGED <<files, next_id, now, uploaded_rows, user, app_config>>

\* a users row as an administrator may have left it
UserRow(username, role, employee_email, email, level, lists) ==
    [ role |-> role, email |-> email, username |-> username,
      employee_email |-> employee_email, data_scope_level |-> level,
      allowed_functions |-> lists[1], allowed_departments |-> lists[2],
      allowed_companies |-> lists[3] ]

\* override lists left by an earlier sync or by hand
StaleLists == <<L(<<"HR">>), L(<<"Pay">>), L(<<"CBL">>)>>

\* what the first row of the users table may be before a sync: a user linked by
\* employee_email or by email, with or without a level
FirstUsers ==
    { UserRow("u1", "user", "a@x.com", "u1@x.com", "", <<NoneList, NoneList, NoneList>>),
      UserRow("u1", "N-1", "", "B@x.com", "N-1", StaleLists),
      UserRow("u1", "N", "c@x.com", "u1@x.com", "N", <<L(<<>>), L(<<>>), L(<<>>)>>),
      UserRow("u1", "N-1", "c@x.com", "u1@x.com", " N-1 ", <<NoneList, L(<<>>), NoneList>>) }

\* what the second row may be: an administrator, a user whose employee_email is
\* blank but not empty, a user linked to nobody
SecondUsers ==
    { UserRow("u2", "admin", "a@x.com", "root@x.com", "", StaleLists),
      UserRow("u2", "N-2", " ", "a@x.com", "N-2", StaleLists),
      UserRow("u2", "user", "zz@x.com", "u2@x.com", "N-2", StaleLists) }

\* one stored roster with room for one more upload, a users table of two rows, no
\* roles yet
InitSync ==
    /\ \E r \in UploadRosters :
          files = { [id |-> MaxUploads - 1, uploaded_at |-> 0, rows |-> r] }
    /\ next_id = MaxUploads
    /\ now = 0
    /\ uploaded_rows = {}
    /\ user = AdminUser
    /\ users \in { <<p, q>> : p \in FirstUsers, q \in SecondUsers }
    /\ roles = {}
    /\ app_config = <<>>
    /\ op = "init"
    /\ resp = <<>>

NextSync == UploadEmployeeFile \/ Tick \/ DeleteEmployeeFiles \/ SyncRolesFromHierarchy

SpecSync == InitSync /\ [][NextSync]_vars

(***************************************************************************)
(* Weekly analysis: times of day and durations                             *)
(* (services/weekly_analysis.py).  Hours are kept in minutes, so that each  *)
(* value the code computes as a float is an exact integer here.            *)
(***************************************************************************)
MinutesPerDay == 1440

\* pairs <<s, 60 * _time_to_hours(s)>> for the time cells of the model: "" and
\* text that does not parse give 0, a number in (0, 1] is a fraction of a day,
\* otherwise the text is split on ":" or "." into hours and minutes
TimePairs ==
    { <<"", 0>>, <<"abc", 0>>, <<"00:00", 0>>,
      <<"06:00", 360>>, <<"09:00", 540>>, <<"9.30", 570>>, <<"10:00", 600>>,
      <<"0.5", 720>>, <<"17:00", 1020>>, <<"22:00", 1320>>,
      <<"-5:00", -300>>, <<"30:00", 1800>> }

TimeTable == TableOf(TimePairs)
TimeStrings == DOMAIN TimeTable

\* _time_to_hours, in minutes
TimeToHours(time_str) ==
    LET s == Strip(time_str) IN
    IF s \in DOMAIN TimeTable THEN TimeTable[s] ELSE 0

\* _compute_duration_hours without the overnight wrap
ComputeDurationHoursNoWrap(start_str, end_str) ==
    LET start_h == TimeToHours(start_str)
        end_h == TimeToHours(end_str)
    IN  IF start_h = 0 \/ end_h = 0 THEN 0
        ELSE IF end_h - start_h > 0 THEN end_h - start_h ELSE 0

\* _compute_duration_hours, in minutes
ComputeDurationHours(start_str, end_str) ==
    LET start_h == TimeToHours(start_str)
        end_h0 == TimeToHours(end_str)
    IN  IF start_h = 0 \/ end_h0 = 0 THEN 0
        ELSE LET end_h == IF end_h0 < start_h THEN end_h0 + MinutesPerDay ELSE end_h0
             IN  IF end_h - start_h > 0 THEN end_h - start_h ELSE 0

\* one attendance row (uploaded_row.data) with the columns the weekly
\* analysis reads
WeeklyRow(date, company, function, department, location, employee_code, name, flag, is_late, shift_in, shift_out, in_time, out_time) ==
    [date |-> date, company |-> company, function |-> function,
     department |-> department, location |-> location,
     employee_code |-> employee_code, name |-> name, flag |-> flag,
     is_late |-> is_late, shift_in |-> shift_in, shift_out |-> shift_out,
     in_time |-> in_time, out_time |-> out_time]

\* the duration of the shift pair or of the attendance pair of the first row,
\* as compute_weekly_analysis takes it
CallComputeDurationHours ==
    /\ op = ""
    /\ Len(uploaded_rows) > 0
    /\ \E pair \in {"shift", "work"} :
          LET data == uploaded_rows[1]
              start_str == IF pair = "shift" THEN Strip(data.shift_in) ELSE Strip(data.in_time)
              end_str == IF pair = "shift" THEN Strip(data.shift_out) ELSE Strip(data.out_time)
          IN  resp' = [pair |-> pair, start_str |-> start_str, end_str |-> end_str,
                       hours |-> ComputeDurationHours(start_str, end_str)]
    /\ op' = "duration"
    /\ UNCHANGED <<files, next_id, now, uploaded_rows, user, users, roles, app_config>>

InitDuration ==
    /\ files = {}
    /\ next_id = 1
    /\ now = 0
    /\ \E s \in TimeStrings, e \in TimeStrings, w \in {"09:00", "22:00"} :
          uploaded_rows = << WeeklyRow("2025-01-03", "CBL", "IT", "Dev", "Dhaka", "101", "Ann",
                                       "P", "", s, e, w, e) >>
    /\ user = AdminUser
    /\ users = <<>>
    /\ roles = {}
    /\ app_config = <<>>
    /\ op = ""
    /\ resp = <<>>

NextDuration == CallComputeDurationHours

SpecDuration == InitDuration /\ [][NextDuration]_vars

(***************************************************************************)
(* Weekly analysis: dates, weeks and group labels                          *)
(***************************************************************************)
\* pairs <<s, _parse_date(s)>> for the date cells of the model that parse;
\* every other text gives None, written <<>>
DatePairs ==
    { <<"2025-01-03", <<2025, 1, 3>> >>, <<"06-Jan-2025", <<2025, 1, 6>> >>,
      <<"2025-01-09", <<2025, 1, 9>> >>, <<"09/02/2025", <<2025, 2, 9>> >> }

DateTable == TableOf(DatePairs)

\* _parse_date
ParseDate(date_str) ==
    IF date_str \in DOMAIN DateTable THEN DateTable[date_str] ELSE <<>>

\* _get_week_key: (year, month, week of the month)
GetWeekKey(date) == <<date[1], date[2], ((date[3] - 1) \div 7) + 1>>

\* f"{n:02d}"
Pad2(n) == IF n < 10 THEN "0" \o ToString(n) ELSE ToString(n)

\* _format_week_key: "YYYY-MM-Www"
FormatWeekKey(year, month, week) ==
    ToString(year) \o "-" \o Pad2(month) \o "-W" \o Pad2(week)

\* f"{year}-{month:02d}"
MonthKey(year, month) == ToString(year) \o "-" \o Pad2(month)

\* the week keys and month keys that can occur
WeekTuples == { 2025 } \X (1..12) \X (1..5)

\* week_key_str.split('-') read back as (year, month, week)
ParseWeekKey(week_key_str) ==
    CHOOSE t \in WeekTuples : FormatWeekKey(t[1], t[2], t[3]) = week_key_str

\* month_key.split("-") read back as (year, month)
ParseMonthKey(month_key) ==
    CHOOSE t \in { 2025 } \X (1..12) : MonthKey(t[1], t[2]) = month_key

MonthNames ==
    << "January", "February", "March", "April", "May", "June", "July",
       "August", "September", "October", "November", "December" >>

\* _get_company_short_name
GetCompanyShortName(company_name) ==
    CASE company_name = "Confidence Batteries Limited" -> "CBL"
      [] company_name = "Confidence Infrastructure PLC." -> "CIPLC"
      [] company_name = "Confidence Steel Export Limited" -> "CSEL"
      [] OTHER -> company_name

\* pairs <<function_name, base_function>> for the function names that end in
\* " - <part naming CBL, CIPLC or CSEL>"; every other name is its own base
BaseFunctionPairs ==
    { <<"IT - CBL", "IT">>, <<"HR - CIPLC & CBL", "HR">> }

BaseFunctionTable == TableOf(BaseFunctionPairs)

BaseFunction(function_name) ==
    IF function_name \in DOMAIN BaseFunctionTable
    THEN BaseFunctionTable[function_name]
    ELSE function_name

\* the group label of a row, "" when the row has none and is skipped
GroupVal(data, group_by) ==
    IF group_by = "function"
    THEN LET company_short == GetCompanyShortName(Strip(data.company))
             base_function == BaseFunction(Strip(data.function))
         IN  IF company_short # "" /\ base_function # ""
             THEN company_short \o " - " \o base_function
             ELSE IF base_function # "" THEN base_function
             ELSE IF company_short # "" THEN company_short ELSE "Unknown"
    ELSE IF group_by = "company" THEN GetCompanyShortName(Strip(data.company))
    ELSE Strip(data.location)

\* the company labels and the function labels a group label is made of
GroupCompanies == { "CBL", "CIPLC", "CSEL", "ACME" }
GroupFunctions == { "IT", "HR", "IT Support" }

\* the name before the code
MemberIdNameFirst(data) ==
    IF Strip(data.name) # "" THEN Strip(data.name) ELSE Strip(data.employee_code)

\* emp_code or emp_name
MemberId(data) ==
    IF Strip(data.employee_code) # "" THEN Strip(data.employee_code) ELSE Strip(data.name)

NoDept == "__no_dept__"

\* whether the loop reaches the aggregation for this row
Bucketed(data, group_by) ==
    /\ ParseDate(Strip(data.date)) # <<>>
    /\ GroupVal(data, group_by) # ""
    /\ MemberId(data) # ""

\* the aggregation key of a row: (week, group) or (week, group, department)
RowKey(data, group_by, use_dept_breakdown) ==
    LET wk == GetWeekKey(ParseDate(Strip(data.date)))
        week_key == FormatWeekKey(wk[1], wk[2], wk[3])
        department_name == Strip(data.department)
    IN  IF use_dept_breakdown
        THEN <<week_key, GroupVal(data, group_by),
               IF department_name # "" THEN department_name ELSE NoDept>>
        ELSE <<week_key, GroupVal(data, group_by)>>

(***************************************************************************)
(* Weekly analysis: the aggregation loop and the result rows               *)
(***************************************************************************)
\* the defaultdict entries of one key, before any row touched them
ZeroCell ==
    [members |-> {}, departments |-> {}, present |-> 0, late |-> 0, on_time |-> 0,
     shift_hours |-> 0, work_hours |-> 0, completed |-> 0, total_days |-> 0,
     lost_hours |-> 0, leave_members |-> {}, sl |-> 0, cl |-> 0, a |-> 0,
     total_leave |-> 0]

\* the entries of a key
CellOf(acc, key) == IF key \in DOMAIN acc THEN acc[key] ELSE ZeroCell

\* the row counts as a work day only when both durations are positive
CountsAsWorkDayBoth(shift_hours, work_hours) == shift_hours > 0 /\ work_hours > 0

\* whether the row's durations enter the sums
CountsAsWorkDay(shift_hours, work_hours) == shift_hours > 0 \/ work_hours > 0

\* completion without the test on the shift
CompletedAnyShift(shift_hours, work_hours) == work_hours >= shift_hours

\* whether the row completed its shift
Completed(shift_hours, work_hours) == work_hours >= shift_hours /\ shift_hours > 0

\* the lost hours of a row whose durations enter the sums; a row without
\* attendance times adds nothing
LostHoursWorkedOnly(shift_hours, work_hours) ==
    IF work_hours > 0 /\ work_hours < shift_hours THEN shift_hours - work_hours ELSE 0

\* the distance between the two durations, overtime included
LostHoursEitherWay(shift_hours, work_hours) ==
    IF work_hours < shift_hours THEN shift_hours - work_hours ELSE work_hours - shift_hours

\* the lost hours of a row whose durations enter the sums
LostHours(shift_hours, work_hours) ==
    IF shift_hours > 0 /\ work_hours < shift_hours THEN shift_hours - work_hours ELSE 0

\* the work-hour update of a P or OD row
WorkHourStep(c, data) ==
    LET Add(shift_hours, work_hours) ==
            IF CountsAsWorkDay(shift_hours, work_hours)
            THEN [c EXCEPT !.shift_hours = @ + shift_hours,
                           !.work_hours = @ + work_hours,
                           !.total_days = @ + 1,
                           !.completed = IF Completed(shift_hours, work_hours)
                                         THEN @ + 1 ELSE @,
                           !.lost_hours = @ + LostHours(shift_hours, work_hours)]
            ELSE c
    IN  Add(ComputeDurationHours(Strip(data.shift_in), Strip(data.shift_out)),
            ComputeDurationHours(Strip(data.in_time), Strip(data.out_time)))

\* the flags whose rows skip the work-hour part
WeekendOrHoliday(flag) == flag = "W" \/ flag = "H"

\* the work-hour part applied whatever the flag
WorkHourPartAnyFlag(c, data, flag) == WorkHourStep(c, data)

\* the work-hour part of the loop body: skipped for weekends and holidays,
\* applied for P and OD, skipped for every other flag
WorkHourPart(c, data, flag) ==
    IF WeekendOrHoliday(flag) THEN c
    ELSE IF flag = "P" \/ flag = "OD" THEN WorkHourStep(c, data)
    ELSE c

\* the leave-member set fed by the rows with a leave flag only
LeaveMembersOnLeave(leave_members, member_id, flag) ==
    IF flag \in {"SL", "CL", "A"} THEN leave_members \cup {member_id} ELSE leave_members

\* the leave-member set after a row: the member is added whatever the flag
LeaveMembers(leave_members, member_id, flag) == leave_members \cup {member_id}

\* the loop body for a row that reached the aggregation
CellStep(c0, data, use_dept_breakdown) ==
    LET Joined(member_id, department_name) ==
            [c0 EXCEPT !.members = @ \cup {member_id},
                       !.departments = IF ~use_dept_breakdown /\ department_name # ""
                                       THEN @ \cup {department_name} ELSE @]
        Attended(c1, flag, is_late) ==
            IF flag = "P"
            THEN [c1 EXCEPT !.present = @ + 1,
                            !.late = IF is_late THEN @ + 1 ELSE @,
                            !.on_time = IF is_late THEN @ ELSE @ + 1]
            ELSE c1
        OnLeave(c4, flag) ==
            IF flag = "SL" THEN [c4 EXCEPT !.sl = @ + 1, !.total_leave = @ + 1]
            ELSE IF flag = "CL" THEN [c4 EXCEPT !.cl = @ + 1, !.total_leave = @ + 1]
            ELSE IF flag = "A" THEN [c4 EXCEPT !.a = @ + 1, !.total_leave = @ + 1]
            ELSE c4
        Body(member_id, flag) ==
            OnLeave([WorkHourPart(Attended(Joined(member_id, Strip(data.department)), flag,
                                           Lower(Strip(data.is_late)) = "yes"),
                                  data, flag)
                       EXCEPT !.leave_members = LeaveMembers(@, member_id, flag)],
                    flag)
    IN  Body(MemberId(data), Strip(data.flag))

\* one iteration of the loop over the rows
RowStep(acc, data, group_by, use_dept_breakdown) ==
    IF ~Bucketed(data, group_by) THEN acc
    ELSE LET Store(key, c) ==
                 [k \in DOMAIN acc \cup {key} |-> IF k = key THEN c ELSE acc[k]]
             Update(key) ==
                 Store(key, CellStep(CellOf(acc, key), data, use_dept_breakdown))
         IN  Update(RowKey(data, group_by, use_dept_breakdown))

\* the loop over the first n rows
RECURSIVE Aggregate(_, _, _, _)
Aggregate(rows, n, group_by, use_dept_breakdown) ==
    IF n = 0 THEN <<>>
    ELSE RowStep(Aggregate(rows, n - 1, group_by, use_dept_breakdown), rows[n],
                 group_by, use_dept_breakdown)

\* round(n / d) to the nearest integer, ties to even (Python's round)
RoundDiv(n, d) ==
    LET q == n \div d
        r == n % d
    IN  IF 2 * r < d THEN q
        ELSE IF 2 * r > d THEN q + 1
        ELSE IF q % 2 = 0 THEN q ELSE q + 1

\* round(hours, 2) of a sum kept in minutes, in hundredths of an hour
RoundHours(minutes) == RoundDiv(100 * minutes, 60)

\* round(part / whole * 100.0, 2) if whole > 0 else 0.0, in hundredths of a
\* per cent
Pct(part, whole) == IF whole > 0 THEN RoundDiv(10000 * part, whole) ELSE 0

\* ", ".join(sorted(departments))
RECURSIVE JoinComma(_)
JoinComma(s) ==
    IF Len(s) = 0 THEN ""
    ELSE IF Len(s) = 1 THEN s[1]
    ELSE s[1] \o ", " \o JoinComma(Tail(s))

\* the result row of a key
ResultRow(key, c, use_dept_breakdown) ==
    LET wk == ParseWeekKey(key[1])
    IN  [week |-> key[1], year |-> wk[1], month |-> wk[2],
         month_name |-> MonthNames[wk[2]], week_in_month |-> wk[3],
         group |-> key[2],
         department |-> IF use_dept_breakdown
                        THEN (IF key[3] = NoDept THEN "" ELSE key[3])
                        ELSE JoinComma(SortedSeq(c.departments)),
         members |-> Cardinality(c.members),
         present |-> c.present, late |-> c.late, on_time |-> c.on_time,
         on_time_pct |-> Pct(c.on_time, c.present),
         shift_hours |-> RoundHours(c.shift_hours),
         work_hours |-> RoundHours(c.work_hours),
         completed |-> c.completed, total_days |-> c.total_days,
         completion_pct |-> Pct(c.completed, c.total_days),
         lost_hours |-> RoundHours(c.lost_hours),
         lost_pct |-> Pct(c.lost_hours, c.shift_hours),
         lost |-> RoundHours(c.lost_hours),
         leave_members |-> Cardinality(c.leave_members),
         sl |-> c.sl, cl |-> c.cl, a |-> c.a,
         sl_pct |-> Pct(c.sl, c.total_leave),
         cl_pct |-> Pct(c.cl, c.total_leave),
         a_pct |-> Pct(c.a, c.total_leave)]

\* the sort key of results.sort: (year, month, week, group, department)
ResultBefore(x, y) ==
    LET kx == <<x.year, x.month, x.week_in_month, StrRank(x.group), StrRank(x.department)>>
        ky == <<y.year, y.month, y.week_in_month, StrRank(y.group), StrRank(y.department)>>
    IN  \E i \in 1..5 : kx[i] < ky[i] /\ \A j \in 1..(i - 1) : kx[j] = ky[j]

RECURSIVE SortResults(_)
SortResults(S) ==
    IF S = {} THEN <<>>
    ELSE LET lo == CHOOSE x \in S : \A y \in S \ {x} : ResultBefore(x, y)
         IN  <<lo>> \o SortResults(S \ {lo})

\* the company named by a group label: the text before " - ", or the label
CompanyOfGroup(group_val) ==
    IF \E p \in GroupCompanies, f \in GroupFunctions : group_val = p \o " - " \o f
    THEN CHOOSE p \in GroupCompanies : \E f \in GroupFunctions : group_val = p \o " - " \o f
    ELSE IF group_val # "" THEN group_val ELSE "Unknown"

\* the aggregate keyed by the week of a cell in place of its month
CompanyMonthAggPerWeek(acc) ==
    LET keys == { key \in DOMAIN acc : key[2] # "" }
    IN  [ck \in { <<key[1], CompanyOfGroup(key[2])>> : key \in keys } |->
            LET S == { key \in keys : <<key[1], CompanyOfGroup(key[2])>> = ck }
                k == CHOOSE k \in S : TRUE
            IN  [members |-> UNION { acc[key].members : key \in S },
                 shift_hours |-> acc[k].shift_hours,
                 work_hours |-> acc[k].work_hours,
                 lost |-> acc[k].lost_hours]]

\* company_month_agg: (month_key, company) -> members, shift_hours,
\* work_hours, lost, summed over the cells of the month and company
CompanyMonthAgg(acc) ==
    LET CKey(key) == LET wk == ParseWeekKey(key[1])
                     IN  <<MonthKey(wk[1], wk[2]), CompanyOfGroup(key[2])>>
        keys == { key \in DOMAIN acc : key[2] # "" }
        RECURSIVE Sum(_, _)
        Sum(S, field) ==
            IF S = {} THEN 0
            ELSE LET k == CHOOSE k \in S : TRUE
                 IN  (IF field = "shift" THEN acc[k].shift_hours
                      ELSE IF field = "work" THEN acc[k].work_hours
                      ELSE acc[k].lost_hours) + Sum(S \ {k}, field)
    IN  [ck \in { CKey(key) : key \in keys } |->
            LET S == { key \in keys : CKey(key) = ck }
            IN  [members |-> UNION { acc[key].members : key \in S },
                 shift_hours |-> Sum(S, "shift"),
                 work_hours |-> Sum(S, "work"),
                 lost |-> Sum(S, "lost")]]

\* compute_weekly_analysis: (results, company_month_agg); company_month_agg
\* is None, written <<>> with none set, unless the breakdown is by department
ComputeWeeklyAnalysis(rows, group_by, breakdown) ==
    LET use_dept_breakdown == group_by = "function" /\ breakdown = "department"
        Output(acc) ==
            [results |-> SortResults({ ResultRow(key, acc[key], use_dept_breakdown) :
                                         key \in DOMAIN acc }),
             company_month_agg |-> IF use_dept_breakdown
                                   THEN [none |-> FALSE, agg |-> CompanyMonthAgg(acc)]
                                   ELSE [none |-> TRUE, agg |-> <<>>]]
    IN  Output(Aggregate(rows, Len(rows), group_by, use_dept_breakdown))

(***************************************************************************)
(* Inputs and requests of the weekly analysis                              *)
(***************************************************************************)
\* a present employee who worked the whole shift
FullDayRow ==
    WeeklyRow("2025-01-03", "Confidence Batteries Limited", "IT", "Dev", "Dhaka",
              "101", "Ann", "P", "", "09:00", "17:00", "09:00", "17:00")

\* the attendance rows of the model: late and short days, missing and
\* unparseable times, an overnight shift, weekend, holiday and leave flags,
\* rows without a code, without any id and without a date, a second week,
\* company, function, department, a row without a location, the first
\* employee in a second week and department of the same company, and times
\* before 00:00 and after 24:00
WeeklyRowKinds ==
    << FullDayRow,
       [FullDayRow EXCEPT !.is_late = "Yes", !.in_time = "10:00"],
       [FullDayRow EXCEPT !.employee_code = "102", !.name = "Bob",
                          !.in_time = "", !.out_time = ""],
       [FullDayRow EXCEPT !.employee_code = "102", !.name = "Bob", !.flag = "OD",
                          !.shift_in = "22:00", !.shift_out = "06:00",
                          !.in_time = "22:00", !.out_time = "06:00"],
       [FullDayRow EXCEPT !.shift_in = "abc"],
       [FullDayRow EXCEPT !.shift_in = "00:00", !.in_time = ""],
       [FullDayRow EXCEPT !.employee_code = "103", !.name = "Cy", !.flag = "W",
                          !.in_time = "10:00"],
       [FullDayRow EXCEPT !.flag = "H"],
       [FullDayRow EXCEPT !.flag = "SL", !.shift_in = "", !.shift_out = "",
                          !.in_time = "", !.out_time = ""],
       [FullDayRow EXCEPT !.employee_code = "", !.name = "Cy", !.flag = "A",
                          !.in_time = "", !.out_time = ""],
       [FullDayRow EXCEPT !.employee_code = " ", !.name = ""],
       [FullDayRow EXCEPT !.date = "n/a"],
       [FullDayRow EXCEPT !.date = "06-Jan-2025", !.function = "IT - CBL",
                          !.department = "Ops"],
       [FullDayRow EXCEPT !.date = "2025-01-09", !.company = "CIPLC", !.function = "HR",
                          !.department = "", !.location = "", !.employee_code = "104",
                          !.name = "Dee", !.in_time = "9.30"],
       [FullDayRow EXCEPT !.employee_code = " 101 ", !.flag = "CL", !.in_time = "",
                          !.out_time = ""],
       [FullDayRow EXCEPT !.employee_code = "", !.flag = "OD", !.in_time = "10:00"],
       [FullDayRow EXCEPT !.date = "2025-01-09", !.department = "Ops",
                          !.in_time = "10:00"],
       [FullDayRow EXCEPT !.shift_in = "-5:00", !.out_time = "30:00"] >>

\* the attendance tables of up to MaxRows rows; the query has no ORDER BY, and
\* each selection of rows is listed in one order
WeeklyTables ==
    UNION { { [i \in 1..n |-> WeeklyRowKinds[ix[i]]] :
                ix \in { f \in [1..n -> 1..Len(WeeklyRowKinds)] :
                           \A i \in 1..(n - 1) : f[i] <= f[i + 1] } } :
            n \in 0..MaxRows }

\* compute_weekly_analysis(db, group_by, breakdown)
CallComputeWeeklyAnalysis ==
    /\ op = ""
    /\ \E group_by \in {"function", "company", "location"}, breakdown \in {"", "department"} :
          \E r \in { ComputeWeeklyAnalysis(uploaded_rows, group_by, breakdown) } :
              resp' = [group_by |-> group_by, breakdown |-> breakdown,
                       results |-> r.results, company_month_agg |-> r.company_month_agg]
    /\ op' = "weekly_analysis"
    /\ UNCHANGED <<files, next_id, now, uploaded_rows, user, users, roles, app_config>>

InitWeekly ==
    /\ files = {}
    /\ next_id = 1
    /\ now = 0
    /\ uploaded_rows \in WeeklyTables
    /\ user = AdminUser
    /\ users = <<>>
    /\ roles = {}
    /\ app_config = <<>>
    /\ op = ""
    /\ resp = <<>>

NextWeekly == CallComputeWeeklyAnalysis

SpecWeekly == InitWeekly /\ [][NextWeekly]_vars

(***************************************************************************)
(* The scope filter of the weekly analysis (routers/work_hour.py)          *)
(***************************************************************************)
\* pairs <<a, b>> of distinct non-empty lower-case strings of the model with
\* a in b
SubstringPairs ==
    { <<"acme", "acme - hr">>, <<"acme", "acme - it">>,
      <<"acme", "acme - it support">>, <<"acme - it", "acme - it support">>,
      <<"cbl", "cbl - hr">>, <<"cbl", "cbl - it">>,
      <<"cbl", "cbl - it support">>, <<"cbl", "ciplc & cbl">>,
      <<"cbl", "ciplc and cbl">>, <<"cbl", "hr - ciplc & cbl">>,
      <<"cbl", "hr - ciplc and cbl">>, <<"cbl - it", "cbl - it support">>,
      <<"ciplc", "ciplc & cbl">>, <<"ciplc", "ciplc - hr">>,
      <<"ciplc", "ciplc - it">>, <<"ciplc", "ciplc - it support">>,
      <<"ciplc", "ciplc and cbl">>, <<"ciplc", "hr - ciplc & cbl">>,
      <<"ciplc", "hr - ciplc and cbl">>, <<"ciplc & cbl", "hr - ciplc & cbl">>,
      <<"ciplc - it", "ciplc - it support">>, <<"ciplc and cbl", "hr - ciplc and cbl">>,
      <<"dev", "development">>, <<"hr", "acme - hr">>,
      <<"hr", "cbl - hr">>, <<"hr", "ciplc - hr">>,
      <<"hr", "hr - ciplc & cbl">>, <<"hr", "hr - ciplc and cbl">>,
      <<"it", "acme - it">>, <<"it", "acme - it support">>,
      <<"it", "cbl - it">>, <<"it", "cbl - it support">>,
      <<"it", "ciplc - it">>, <<"it", "ciplc - it support">>,
      <<"it", "confidence batteries limited">>, <<"it", "it support">>,
      <<"it support", "acme - it support">>, <<"it support", "cbl - it support">>,
      <<"it support", "ciplc - it support">> }

\* triples <<s, prefix, rest>> for the lower-case strings with " - " in s:
\* s.split(" - ", 1), both parts stripped
DashTriples ==
    { <<"acme - hr", "acme", "hr">>,
      <<"acme - it", "acme", "it">>,
      <<"acme - it support", "acme", "it support">>,
      <<"cbl - hr", "cbl", "hr">>,
      <<"cbl - it", "cbl", "it">>,
      <<"cbl - it support", "cbl", "it support">>,
      <<"ciplc - hr", "ciplc", "hr">>,
      <<"ciplc - it", "ciplc", "it">>,
      <<"ciplc - it support", "ciplc", "it support">>,
      <<"hr - ciplc & cbl", "hr", "ciplc & cbl">>,
      <<"hr - ciplc and cbl", "hr", "ciplc and cbl">> }

\* pairs <<af, base>> for the lower-case function names whose part after the
\* last " - " names cbl, ciplc or csel: base is the text before it
AllowedBasePairs ==
    { <<"hr - ciplc & cbl", "hr">>,
      <<"hr - ciplc and cbl", "hr">> }

\* pairs <<s, _normalize_func(s)>> for the lower-case strings that change
NormalizeFuncPairs ==
    { <<"ciplc & cbl", "ciplc and cbl">>,
      <<"hr - ciplc & cbl", "hr - ciplc and cbl">> }

\* a in b, for lower-case strings of the model
Contains(a, b) == a = "" \/ a = b \/ <<a, b>> \in SubstringPairs

\* " - " in s
HasDash(s) == \E t \in DashTriples : t[1] = s

\* s.split(" - ", 1)[0].strip() and s.split(" - ", 1)[1].strip()
DashPrefix(s) == (CHOOSE t \in DashTriples : t[1] = s)[2]
DashRest(s) == (CHOOSE t \in DashTriples : t[1] = s)[3]

AllowedBaseTable == TableOf(AllowedBasePairs)
NormalizeFuncTable == TableOf(NormalizeFuncPairs)

\* _normalize_func
NormalizeFunc(s) == IF s \in DOMAIN NormalizeFuncTable THEN NormalizeFuncTable[s] ELSE s

\* _norm_set of a list
NormSet(items) == { Norm(x) : x \in { y \in Range(items) : Strip(y) # "" } }

\* _COMPANY_TO_SHORT.get(c, c)
CompanyToShort(c) ==
    CASE c = "confidence batteries limited" -> "cbl"
      [] c = "confidence infrastructure plc." -> "ciplc"
      [] c = "confidence steel export limited" -> "csel"
      [] OTHER -> c

\* _COMPANY_SHORT_NAMES
CompanyShortNames == { "cbl", "ciplc", "csel" }

\* _allowed_function_match_set
AllowedFunctionMatchSet(allowed_functions) ==
    allowed_functions
        \cup { AllowedBaseTable[af] : af \in allowed_functions \cap DOMAIN AllowedBaseTable }

\* _function_matches_scope
FunctionMatchesScope(group_for_match, group_lower, function_match_set) ==
    \/ function_match_set = {}
    \/ group_for_match \in function_match_set
    \/ group_lower \in function_match_set
    \/ \E allowed \in function_match_set :
          Contains(allowed, group_for_match) \/ Contains(group_for_match, allowed)
    \/ \E allowed \in function_match_set :
          /\ NormalizeFunc(allowed) # ""
          /\ \/ Contains(NormalizeFunc(allowed), NormalizeFunc(group_for_match))
             \/ Contains(NormalizeFunc(group_for_match), NormalizeFunc(allowed))

\* the department words a department field is joined from
DeptWords == { "Dev", "Development", "Ops", "Pay" }

\* [d.strip() for d in department.split(",") if d.strip()], as a set
SplitComma(department) ==
    IF department = "" THEN {}
    ELSE CHOOSE S \in SUBSET DeptWords : JoinComma(SortedSeq(S)) = department

\* a department matched by equality alone
DeptMatchesExact(d0, allowed) == Lower(Strip(d0)) \in allowed

\* _dept_matches
DeptMatches(d0, allowed) ==
    LET d == Lower(Strip(d0)) IN
    d \in allowed \/ \E a \in allowed : Contains(a, d) \/ Contains(d, a)

\* a scope whose company list is always taken as naming a known short name
ScopeHasMappedCompanyAlways(allowed_companies) == TRUE

\* bool(allowed_companies & _COMPANY_SHORT_NAMES)
ScopeHasMappedCompany(allowed_companies) == allowed_companies \cap CompanyShortNames # {}

\* a scope is never taken to open everything
PassAllNever(scope) == FALSE

\* scope.get("all")
PassAll(scope) == scope.all

\* the company test applied whatever the grouping
CompanyStageAnyGroup(group_by, group_lower, allowed_companies) ==
    ~(allowed_companies # {} /\ group_lower \notin allowed_companies)

\* the loop without the company test
CompanyStageSkipped(group_by, group_lower, allowed_companies) == TRUE

\* the company test of the loop: for group_by "company" a row whose label is
\* not in a non-empty allowed-company set is skipped
CompanyStage(group_by, group_lower, allowed_companies) ==
    ~(group_by = "company" /\ allowed_companies # {} /\ group_lower \notin allowed_companies)

\* the body of the loop of _filter_weekly_by_scope: whether the row is
\* appended to out
KeepsRow(row, group_by, allowed_functions, allowed_departments, allowed_companies) ==
    LET function_match_set == IF allowed_functions # {}
                              THEN AllowedFunctionMatchSet(allowed_functions) ELSE {}
        group_lower == Lower(Strip(row.group))
        row_depts == SplitComma(Strip(row.department))
        prefix == IF HasDash(group_lower) THEN DashPrefix(group_lower) ELSE ""
        group_for_match == IF HasDash(group_lower) THEN DashRest(group_lower) ELSE group_lower
        row_matches_function ==
            IF function_match_set # {}
            THEN FunctionMatchesScope(group_for_match, group_lower, function_match_set)
            ELSE TRUE
        function_stage ==
            /\ ~(function_match_set # {} /\ ~row_matches_function)
            /\ (allowed_companies # {} /\ prefix # "" /\ prefix \notin allowed_companies)
                  => (row_matches_function /\ ~ScopeHasMappedCompany(allowed_companies))
        department_stage ==
            ~(/\ allowed_departments # {}
              /\ row_depts # {}
              /\ ~\E d \in row_depts : DeptMatches(d, allowed_departments))
    IN  /\ group_by = "function" => function_stage
        /\ CompanyStage(group_by, group_lower, allowed_companies)
        /\ department_stage

\* _filter_weekly_by_scope
FilterWeeklyByScope(result, group_by, scope) ==
    IF PassAll(scope) THEN result
    ELSE LET allowed_functions == NormSet(OrEmpty(scope.allowed_functions).items)
             allowed_departments == NormSet(OrEmpty(scope.allowed_departments).items)
             allowed_companies_raw == NormSet(OrEmpty(scope.allowed_companies).items)
             allowed_companies ==
                 allowed_companies_raw \cup { CompanyToShort(c) : c \in allowed_companies_raw }
         IN  IF allowed_functions = {} /\ allowed_departments = {} /\ allowed_companies = {}
             THEN result
             ELSE SelectSeq(result,
                      LAMBDA row : KeepsRow(row, group_by, allowed_functions,
                                            allowed_departments, allowed_companies))

(***************************************************************************)
(* Inputs and requests of the scope filter                                 *)
(***************************************************************************)
\* attendance rows of several companies, functions, departments and
\* locations: a mapped company under its full name, a short name, a company
\* without a short name and a row without a company
FilterRowKinds ==
    << FullDayRow,
       [FullDayRow EXCEPT !.employee_code = "102", !.name = "Bob", !.department = "Ops"],
       [FullDayRow EXCEPT !.company = "CIPLC", !.function = "HR", !.employee_code = "103",
                          !.name = "Cy", !.location = "Ctg"],
       [FullDayRow EXCEPT !.company = "ACME", !.department = "", !.employee_code = "104",
                          !.name = "Dee"],
       [FullDayRow EXCEPT !.company = "", !.department = "Development",
                          !.employee_code = "105", !.name = "Eve"],
       [FullDayRow EXCEPT !.company = "CIPLC", !.function = "IT Support",
                          !.department = "Ops", !.in_time = "10:00"] >>

\* the attendance tables of up to MaxFilterRows of these rows, each selection
\* in one order
FilterTables ==
    UNION { { [i \in 1..n |-> FilterRowKinds[ix[i]]] :
                ix \in { f \in [1..n -> 1..Len(FilterRowKinds)] :
                           \A i \in 1..(n - 1) : f[i] <= f[i + 1] } } :
            n \in 0..MaxFilterRows }

\* the scopes handed to the filter
FilterScopes ==
    { AllScope,
      [ all |-> TRUE, allowed_functions |-> L(<<"QA">>),
        allowed_departments |-> L(<<"Pay">>), allowed_companies |-> L(<<"CBL">>) ] }
    \cup
    { [ all |-> FALSE, allowed_functions |-> af, allowed_departments |-> ad,
        allowed_companies |-> ac ] :
        af \in { NoneList, L(<<>>), L(<<" ">>), L(<<"IT">>), L(<<"HR - CIPLC & CBL">>) },
        ad \in { L(<<>>), L(<<"Dev">>), L(<<"Development">>), L(<<"Ops", "Pay">>) },
        ac \in { L(<<>>), L(<<"Confidence Batteries Limited">>), L(<<"CIPLC">>),
                 L(<<"ACME">>) } }

\* _filter_weekly_by_scope(result_full, group_by, scope) on the result of
\* compute_weekly_analysis
CallFilterWeeklyByScope ==
    /\ op = ""
    /\ \E group_by \in {"function", "company", "location"}, breakdown \in {"", "department"},
          scope \in FilterScopes :
          \E result \in { ComputeWeeklyAnalysis(uploaded_rows, group_by, breakdown).results } :
              resp' = [group_by |-> group_by, breakdown |-> breakdown, scope |-> scope,
                       result |-> result,
                       out |-> FilterWeeklyByScope(result, group_by, scope)]
    /\ op' = "filter"
    /\ UNCHANGED <<files, next_id, now, uploaded_rows, user, users, roles, app_config>>

InitFilter ==
    /\ files = {}
    /\ next_id = 1
    /\ now = 0
    /\ uploaded_rows \in FilterTables
    /\ user = AdminUser
    /\ users = <<>>
    /\ roles = {}
    /\ app_config = <<>>
    /\ op = ""
    /\ resp = <<>>

NextFilter == CallFilterWeeklyByScope

SpecFilter == InitFilter /\ [][NextFilter]_vars

(***************************************************************************)
(* GET /work_hour/weekly/{group_by} (routers/work_hour.py)                 *)
(***************************************************************************)
\* an Optional[float]: None, or a rate in BDT per hour
NoRate == [none |-> TRUE, rate |-> 0]
Rate(x) == [none |-> FALSE, rate |-> x]

\* float(value) of a config value; text that is no number raises and is
\* passed over
CtcValue(value) ==
    CASE value = "100" -> Rate(100)
      [] value = "250" -> Rate(250)
      [] OTHER -> NoRate

CtcPerHourKey == "ctc_per_hour_bdt"

\* pairs <<key, key[len("ctc_per_hour_bdt:"):].strip()>> for the keys of the
\* rates by function
CtcFunctionKeyPairs ==
    { <<"ctc_per_hour_bdt:IT", "IT">>, <<"ctc_per_hour_bdt:HR", "HR">> }

\* _load_ctc_rates: (default_ctc, ctc_by_function)
LoadCtcRates(cfg) ==
    LET keys == { p \in CtcFunctionKeyPairs :
                    /\ p[1] \in DOMAIN cfg
                    /\ cfg[p[1]] # ""
                    /\ ~CtcValue(cfg[p[1]]).none }
    IN  [default_ctc |-> IF CtcPerHourKey \in DOMAIN cfg /\ cfg[CtcPerHourKey] # ""
                         THEN CtcValue(cfg[CtcPerHourKey]) ELSE NoRate,
         ctc_by_function |-> [fn \in { p[2] : p \in keys } |->
                                 CtcValue(cfg[(CHOOSE p \in keys : p[2] = fn)[1]]).rate]]

\* the text after the first " - " of a group label, or the label
FunctionOfGroup(group) ==
    IF \E p \in GroupCompanies, f \in GroupFunctions : group = p \o " - " \o f
    THEN CHOOSE f \in GroupFunctions : \E p \in GroupCompanies : group = p \o " - " \o f
    ELSE group

\* _get_rate_for_group
GetRateForGroup(group, default_ctc, ctc_by_function) ==
    LET function_part == FunctionOfGroup(Strip(group)) IN
    IF function_part # "" /\ function_part \in DOMAIN ctc_by_function
    THEN Rate(ctc_by_function[function_part])
    ELSE default_ctc

\* _compute_company_totals_full over the first n rows: (month_key, company)
\* -> cost in hundredths of a BDT
RECURSIVE ComputeCompanyTotalsFull(_, _, _, _)
ComputeCompanyTotalsFull(rows, n, default_ctc, ctc_by_function) ==
    IF n = 0 THEN <<>>
    ELSE LET totals == ComputeCompanyTotalsFull(rows, n - 1, default_ctc, ctc_by_function)
             row == rows[n]
             group == Strip(row.group)
             rate == GetRateForGroup(group, default_ctc, ctc_by_function)
             key == <<MonthKey(row.year, row.month), CompanyOfGroup(group)>>
             cost == row.lost * rate.rate
         IN  IF group = "" \/ rate.none THEN totals
             ELSE [k \in DOMAIN totals \cup {key} |->
                      IF k = key
                      THEN (IF key \in DOMAIN totals THEN totals[key] ELSE 0) + cost
                      ELSE totals[k]]

\* the rows the company totals are computed from: the filtered rows
RollupRowsFiltered(result_full, result) == result

\* the rows the company totals are computed from: the full result
RollupRows(result_full, result) == result_full

\* the sort key of company_wise_full.sort: (month_key, company)
CompanyRowBefore(x, y) ==
    \/ x.year < y.year
    \/ x.year = y.year /\ x.month < y.month
    \/ x.year = y.year /\ x.month = y.month /\ StrRank(x.company) < StrRank(y.company)

RECURSIVE SortCompanyRows(_)
SortCompanyRows(S) ==
    IF S = {} THEN <<>>
    ELSE LET lo == CHOOSE x \in S : \A y \in S \ {x} : CompanyRowBefore(x, y)
         IN  <<lo>> \o SortCompanyRows(S \ {lo})

\* the company_wise_full rows of company_month_agg
CompanyWiseFull(agg, totals) ==
    SortCompanyRows(
        { LET ym == ParseMonthKey(ck[1]) IN
          [month_key |-> ck[1], year |-> ym[1], month |-> ym[2], company |-> ck[2],
           members |-> Cardinality(agg[ck].members),
           shift_hours |-> RoundHours(agg[ck].shift_hours),
           work_hours |-> RoundHours(agg[ck].work_hours),
           lost |-> RoundHours(agg[ck].lost),
           cost |-> IF ~totals.none /\ ck \in DOMAIN totals.totals
                    THEN totals.totals[ck] ELSE 0] : ck \in DOMAIN agg })

\* the body of the response of weekly_analysis for a caller u
WeeklyAnalysisResponse(rows, cfg, u, hm, group_by, breakdown) ==
    LET rollup == group_by = "function" /\ breakdown = "department"
        \* company_totals_full, from the rows the totals are computed from
        Totals(from, rates) ==
            IF rollup /\ (~rates.default_ctc.none \/ DOMAIN rates.ctc_by_function # {})
            THEN [none |-> FALSE,
                  totals |-> ComputeCompanyTotalsFull(from, Len(from), rates.default_ctc,
                                                      rates.ctc_by_function)]
            ELSE [none |-> TRUE, totals |-> <<>>]
        \* company_wise_full
        CompanyWise(company_month_agg, company_totals_full) ==
            IF rollup /\ ~company_month_agg.none
            THEN [none |-> FALSE,
                  rows |-> CompanyWiseFull(company_month_agg.agg, company_totals_full)]
            ELSE [none |-> TRUE, rows |-> <<>>]
        \* out
        Out(result, company_month_agg, company_totals_full) ==
            [data |-> result, company_totals_full |-> company_totals_full,
             company_wise_full |-> CompanyWise(company_month_agg, company_totals_full)]
        \* after the scope filter
        Rollup(result_full, company_month_agg, result) ==
            Out(result, company_month_agg,
                Totals(RollupRows(result_full, result), LoadCtcRates(cfg)))
        \* after compute_weekly_analysis
        Filter(result_full, company_month_agg) ==
            Rollup(result_full, company_month_agg,
                   FilterWeeklyByScope(result_full, group_by, GetEffectiveScope(u, hm)))
        Handle(full) == Filter(full.results, full.company_month_agg)
    IN  Handle(ComputeWeeklyAnalysis(rows, group_by, breakdown))

\* GET /work_hour/weekly/{group_by}?breakdown=...
WeeklyAnalysis ==
    /\ op = ""
    /\ \E group_by \in {"function", "company", "location"}, breakdown \in {"", "department"},
          hm \in LatestMaps :
          \E body \in { WeeklyAnalysisResponse(uploaded_rows, app_config, user, hm,
                                                 group_by, breakdown) } :
              resp' = [group_by |-> group_by, breakdown |-> breakdown, data |-> body.data,
                       company_totals_full |-> body.company_totals_full,
                       company_wise_full |-> body.company_wise_full]
    /\ op' = "weekly"
    /\ UNCHANGED <<files, next_id, now, uploaded_rows, user, users, roles, app_config>>

\* the app_config tables: no rate, a default rate, a rate for one function
\* beside a default that is no number, and both
CtcConfigs ==
    { <<>>,
      [k \in {"ctc_per_hour_bdt"} |-> "100"],
      [k \in {"ctc_per_hour_bdt", "ctc_per_hour_bdt:IT"} |->
          IF k = "ctc_per_hour_bdt" THEN "abc" ELSE "250"],
      [k \in {"ctc_per_hour_bdt", "ctc_per_hour_bdt:HR"} |->
          IF k = "ctc_per_hour_bdt" THEN "100" ELSE "250"] }

\* the callers: an administrator, users with override lists, and users served
\* by the roster
WeeklyUsers ==
    { AdminUser,
      [AdminUser EXCEPT !.role = "user", !.email = "u@x.com", !.username = "u",
                        !.allowed_functions = L(<<"HR">>)],
      [AdminUser EXCEPT !.role = "user", !.email = "u@x.com", !.username = "u",
                        !.allowed_companies = L(<<"Confidence Batteries Limited">>)],
      [AdminUser EXCEPT !.role = "N-1", !.email = "a@x.com", !.username = "a",
                        !.employee_email = "a@x.com", !.data_scope_level = "N-1"],
      [AdminUser EXCEPT !.role = "user", !.email = "B@x.com", !.username = "b",
                        !.employee_email = "B@x.com", !.data_scope_level = "N-2"] }

\* the attendance rows behind the endpoint: every row loses some hours
LateRows(table) ==
    [i \in 1..Len(table) |-> [table[i] EXCEPT !.in_time = "10:00"]]

InitWeeklyEndpoint ==
    /\ files = { [id |-> 1, uploaded_at |-> 0,
                  rows |-> << Row(1, NoManager, Profile(1)),
                              Row(2, [lm |-> LmRef(1), sup |-> ""], Profile(2)) >>] }
    /\ next_id = 2
    /\ now = 0
    /\ \E table \in FilterTables : uploaded_rows \in { table, LateRows(table) }
    /\ user \in WeeklyUsers
    /\ users = <<>>
    /\ roles = {}
    /\ app_config \in CtcConfigs
    /\ op = ""
    /\ resp = <<>>

NextWeeklyEndpoint == WeeklyAnalysis

SpecWeeklyEndpoint == InitWeeklyEndpoint /\ [][NextWeeklyEndpoint]_vars

(***************************************************************************)
(* The two breadth-first loops, one iteration at a time                    *)
(***************************************************************************)
\* the number of assignments a key has received, counted up to "more than
\* one"
Written(writes, key) == [writes EXCEPT ![key] = IF @ = 0 THEN 1 ELSE 2]

\* the loop body of build_hierarchy_map without the test on seen
LevelBfsStepNoSeen(s) ==
    LET email_key == Head(s.q)[1]
        level == Head(s.q)[2]
        kids == ChildList(s.child_map, email_key)
    IN  [s EXCEPT !.q = Tail(@) \o [i \in DOMAIN kids |-> <<kids[i], NextLevel(level)>>],
                  !.seen = @ \cup {email_key},
                  !.level_map = (email_key :> level) @@ @,
                  !.writes = Written(@, email_key)]

\* one iteration of `while q` of build_hierarchy_map on the loop state s: q,
\* seen, level_map, and the count of the assignments to level_map
LevelBfsStep(s) ==
    LET email_key == Head(s.q)[1]
        level == Head(s.q)[2]
        kids == ChildList(s.child_map, email_key)
    IN  IF email_key \in s.seen
        THEN [s EXCEPT !.q = Tail(@)]
        ELSE [s EXCEPT !.q = Tail(@) \o [i \in DOMAIN kids |-> <<kids[i], NextLevel(level)>>],
                       !.seen = @ \cup {email_key},
                       !.level_map = (email_key :> level) @@ @,
                       !.writes = Written(@, email_key)]

RECURSIVE AddChildren(_, _, _)
\* `for child in child_map.get(parent, [])` of get_subordinate_emails from
\* child k of the list on
AddChildren(s, kids, k) ==
    IF k > Len(kids) THEN s
    ELSE IF kids[k] \in s.out THEN AddChildren(s, kids, k + 1)
    ELSE AddChildren([s EXCEPT !.out = @ \cup {kids[k]},
                               !.q = Append(@, kids[k]),
                               !.writes = Written(@, kids[k])],
                     kids, k + 1)

\* one iteration of `while q` of get_subordinate_emails on the loop state s:
\* q, out, and the count of the additions to out
SubordinateBfsStep(s) ==
    AddChildren([s EXCEPT !.q = Tail(@)], ChildList(s.child_map, Head(s.q)), 1)

\* build_hierarchy_map up to the loop: the queue holds the roots at "N"
StartLevelBfs ==
    /\ op = "init"
    /\ \E fs \in LatestFiles :
          /\ fs # <<>>
          /\ \E m \in { EmailToRowOfFiles(fs, 1, <<>>) } :
                \E email_to_parent \in { EmailToParent(m) } :
                   \E roots \in { Roots(m, email_to_parent) } :
                      resp' = [ child_map |-> ChildMap(m, email_to_parent),
                                q |-> [i \in DOMAIN roots |-> <<roots[i], "N">>],
                                seen |-> {},
                                level_map |-> <<>>,
                                writes |-> [e \in Keys(m) |-> 0] ]
    /\ op' = "level_bfs"
    /\ UNCHANGED <<files, next_id, now, uploaded_rows, user, users, roles, app_config>>

\* `while q:` with a non-empty queue
StepLevelBfs ==
    /\ op = "level_bfs"
    /\ resp.q # <<>>
    /\ resp' = LevelBfsStep(resp)
    /\ UNCHANGED <<files, next_id, now, uploaded_rows, user, users, roles, app_config, op>>

\* `while q:` with an empty queue: the loop is left
EndLevelBfs ==
    /\ op = "level_bfs"
    /\ resp.q = <<>>
    /\ op' = "level_done"
    /\ UNCHANGED <<files, next_id, now, uploaded_rows, user, users, roles, app_config, resp>>

\* get_subordinate_emails up to the loop, for an employee of the map whose
\* level is not "N"
StartSubordinateBfs ==
    /\ op = "init"
    /\ \E hm \in LatestMaps :
          \E email_lower \in { e \in Keys(hm) : Strip(Get(hm, e).level) # "N" } :
             resp' = [ hierarchy_map |-> hm,
                       employee_email |-> email_lower,
                       child_map |-> BuildChildMap(hm),
                       q |-> <<email_lower>>,
                       out |-> {email_lower},
                       writes |-> [e \in Keys(hm) |-> IF e = email_lower THEN 1 ELSE 0] ]
    /\ op' = "subordinate_bfs"
    /\ UNCHANGED <<files, next_id, now, uploaded_rows, user, users, roles, app_config>>

StepSubordinateBfs ==
    /\ op = "subordinate_bfs"
    /\ resp.q # <<>>
    /\ resp' = SubordinateBfsStep(resp)
    /\ UNCHANGED <<files, next_id, now, uploaded_rows, user, users, roles, app_config, op>>

EndSubordinateBfs ==
    /\ op = "subordinate_bfs"
    /\ resp.q = <<>>
    /\ op' = "subordinate_done"
    /\ UNCHANGED <<files, next_id, now, uploaded_rows, user, users, roles, app_config, resp>>

NextBfs ==
    \/ StartLevelBfs
    \/ StepLevelBfs
    \/ EndLevelBfs
    \/ StartSubordinateBfs
    \/ StepSubordinateBfs
    \/ EndSubordinateBfs

\* one stored roster in which every record has no manager or names a
\* record of the roster, itself included, by id: trees, forests, cycles and
\* self-loops
InitBfs ==
    /\ \E ref \in [Emp -> {NoManager} \cup { [lm |-> LmRef(j), sup |-> ""] : j \in Emp }] :
          files = { [id |-> 1, uploaded_at |-> 0,
                     rows |-> [i \in Emp |-> Row(i, ref[i], Profile(i))]] }
    /\ next_id = 2
    /\ now = 0
    /\ uploaded_rows = {}
    /\ user = AdminUser
    /\ users = <<>>
    /\ roles = {}
    /\ app_config = <<>>
    /\ op = "init"
    /\ resp = <<>>

\* a loop that can take a step takes it: each call runs to its end on its
\* own thread of the request
SpecBfs == InitBfs /\ [][NextBfs]_vars /\ WF_vars(NextBfs)

(***************************************************************************)
(* Properties of the hierarchy                                             *)
(***************************************************************************)

\* the resolved parent of the record with key e in a built map ("" if none)
ParentIn(hm, e) == ParentEmail(hm, Get(hm, e))

\* the records the builder starts from: those without a parent in the roster, or,
\* when there is none, every record
RootSet(hm) ==
    LET free == { e \in Keys(hm) : ParentIn(hm, e) \notin Keys(hm) } IN
    IF free = {} THEN Keys(hm) ELSE free

\* the chains of keys of length n in which each key is the parent of the next
ChainsFrom(hm, n) ==
    { c \in [1..n -> Keys(hm)] : \A i \in 1..(n - 1) : ParentIn(hm, c[i + 1]) = c[i] }

\* x is e or is under e: some chain of manager links leads from e down to x
Under(hm, e, x) ==
    \E n \in 1..Cardinality(Keys(hm)) :
       \E c \in ChainsFrom(hm, n) : c[1] = e /\ c[n] = x

\* x hangs, through manager links, under one of the records the builder starts from
ReachedFromRoot(hm, x) == \E r \in RootSet(hm) : Under(hm, r, x)

\* the edges of a child_map lead from e down to x in at most n steps
UnderByChildMap(child_map, e, x, n) ==
    \E k \in 1..n :
       \E c \in [1..k -> DOMAIN child_map \cup {e, x}] :
          /\ c[1] = e /\ c[k] = x
          /\ \A i \in 1..(k - 1) : c[i] \in DOMAIN child_map /\ c[i + 1] \in Range(child_map[c[i]])

\* C8: for an employee of the map, get_subordinate_emails returns every key of the
\* map when the employee's level is "N", and otherwise exactly the employee's own
\* key together with every key that child_map edges lead to from it.
C8_Subordinates ==
    op = "subordinates" =>
        LET hm == resp.hierarchy_map
            e == Lower(Strip(resp.employee_email))
        IN  Has(hm, e) =>
              IF Get(hm, e).level = "N"
              THEN resp.out = Keys(hm)
              ELSE resp.out =
                     { x \in Keys(hm) \cup {e} :
                         UnderByChildMap(resp.child_map, e, x, Cardinality(Keys(hm))) }

\* a root whose subtree is not the whole roster was asked for, and so was a record
\* below the roots that has a subordinate
C8_Witness ==
    /\ op = "subordinates"
    /\ Has(resp.hierarchy_map, Lower(resp.employee_email))
    /\ \/ /\ Get(resp.hierarchy_map, Lower(resp.employee_email)).level = "N"
          /\ \E x \in Keys(resp.hierarchy_map) :
                ~Under(resp.hierarchy_map, Lower(resp.employee_email), x)
       \/ /\ Get(resp.hierarchy_map, Lower(resp.employee_email)).level = "N-1"
          /\ Cardinality(resp.out) = 2

\* C9 as claimed: in every built map, every record that is not a root has the level
\* of its resolved parent plus one.
C9_AsClaimed ==
    op = "hierarchy" =>
        \A e \in Keys(resp) \ RootSet(resp) :
            LevelSuffix(Get(resp, e).level) = LevelSuffix(Get(resp, ParentIn(resp, e)).level) + 1

\* C9 amended: every record that is not a root and hangs under a root through
\* manager links has the level of its resolved parent plus one (its depth below the
\* roots); the records of a reporting cycle that no root leads to are outside this.
C9_LevelMonotone ==
    op = "hierarchy" =>
        \A e \in Keys(resp) \ RootSet(resp) :
            ReachedFromRoot(resp, e) =>
                /\ LevelSuffix(Get(resp, e).level)
                     = LevelSuffix(Get(resp, ParentIn(resp, e)).level) + 1
                /\ \E r \in RootSet(resp) :
                      \E c \in ChainsFrom(resp, LevelSuffix(Get(resp, e).level) + 1) :
                          c[1] = r /\ c[LevelSuffix(Get(resp, e).level) + 1] = e

\* a built map with a record two levels below a root
C9_Witness ==
    /\ op = "hierarchy"
    /\ \E e \in Keys(resp) \ RootSet(resp) :
          ReachedFromRoot(resp, e) /\ Get(resp, e).level = "N-2"

(***************************************************************************)
(* Properties of the scope resolver                                        *)
(***************************************************************************)

\* the three override lists of u are all None or empty
NoOverrides(u) ==
    /\ ~NonEmptyList(u.allowed_functions)
    /\ ~NonEmptyList(u.allowed_departments)
    /\ ~NonEmptyList(u.allowed_companies)

\* the roster has a record for the employee_email of u
Linked(u, hm) ==
    \E i \in DOMAIN hm : hm[i].key = Lower(Strip(u.employee_email))

\* the roster record u is linked to
OwnRecord(u, hm) ==
    hm[CHOOSE i \in DOMAIN hm : hm[i].key = Lower(Strip(u.employee_email))]

\* a list field of a response: a list, not None, with exactly the members of S
IsListOf(x, S) == ~x.none /\ Range(x.items) = S /\ Len(x.items) = Cardinality(S)

\* {x} for a value the roster gives, {} for a blank cell
Own(x) == IF x = "" THEN {} ELSE {x}

\* the data_scope_level values at "N-2" or deeper
Deeper == { "N-2", "N-3" }

C3_AsClaimed ==
    op = "effective_scope" /\ user.role \notin {"admin", "N"} /\ NoOverrides(user)
       /\ Strip(user.data_scope_level) \in Deeper =>
        \A hm \in LatestMaps : Linked(user, hm) =>
            /\ resp.all = FALSE
            /\ IsListOf(resp.allowed_functions, Own(OwnRecord(user, hm).function))
            /\ IsListOf(resp.allowed_departments, Own(OwnRecord(user, hm).department))
            /\ IsListOf(resp.allowed_companies, Own(OwnRecord(user, hm).company))

\* the departments / companies the roster gives to the records of function f
DepartmentsOf(hm, f) == { hm[i].department : i \in { j \in DOMAIN hm : hm[j].function = f } } \ {""}
CompaniesOf(hm, f) == { hm[i].company : i \in { j \in DOMAIN hm : hm[j].function = f } } \ {""}

C5_FailOpen ==
    op = "effective_scope" /\ user.role # "admin" /\ NoOverrides(user) =>
        \A hm \in LatestMaps : ~Linked(user, hm) => resp = AllScope

\* such a user asked, with a data_scope_level and an e-mail the roster lacks
C5_Witness ==
    /\ op = "effective_scope" /\ user.role = "user" /\ NoOverrides(user)
    /\ user.employee_email = "zz@x.com" /\ user.data_scope_level = "N-2"
    /\ files # {} /\ \A hm \in LatestMaps : ~Linked(user, hm)
    /\ resp.all

\* what a scope lets through: everything, or the three allow-sets (None and the
\* empty list both leave an axis unconstrained)
Denotes(scope) ==
    IF scope.all THEN <<TRUE, {}, {}, {}>>
    ELSE <<FALSE, Range(scope.allowed_functions.items),
           Range(scope.allowed_departments.items), Range(scope.allowed_companies.items)>>

\* C6 as claimed: GET /users/me/scope reports the scope get_effective_scope
\* computes for the caller.
C6_AsClaimed ==
    op = "my_scope" =>
        \A hm \in LatestMaps : Denotes(resp) = Denotes(GetEffectiveScope(user, hm))

(***************************************************************************)
(* Properties of the attendance-row filter                                 *)
(***************************************************************************)

\* the record with key e and the records under it through manager links
Subtree(hm, e) == { x \in Keys(hm) : Under(hm, e, x) }

\* C7 as claimed (for the callers the role rule leaves to the filter): a user at
\* "N-2" or deeper who is linked to a roster record gets the e-mails and codes of
\* the record's subtree only, and file detail shows no row of an employee outside
\* the subtree nor a row whose department or function the subtree does not have.
C7_AsClaimed ==
    user.role \notin {"admin", "N"} /\ Strip(user.data_scope_level) \in Deeper =>
        \A hm \in LatestMaps : Linked(user, hm) =>
            LET sub == Subtree(hm, Lower(Strip(user.employee_email)))
                codes == { Lower(Get(hm, e).employee_code) : e \in sub }
                departments == { Lower(Get(hm, e).department) : e \in sub }
                functions == { Lower(Get(hm, e).function) : e \in sub }
            IN  /\ op = "allowed_codes" =>
                     /\ ~resp.emails.none /\ resp.emails.items \subseteq sub
                     /\ ~resp.codes.none /\ resp.codes.items \subseteq codes
                /\ op = "file_detail" =>
                     \A r \in resp :
                        /\ RowEmployeeCode(r) \in codes \/ RowEmail(r) \in sub
                        /\ RowDepartment(r) # "" => RowDepartment(r) \in departments
                        /\ RowFunction(r) # "" => RowFunction(r) \in functions

(***************************************************************************)
(* Properties of the roster store                                          *)
(***************************************************************************)

\* the keys build_hierarchy_map makes of the rows of file f
KeysOfFile(f) == { Lower(Strip(f.rows[i].email)) : i \in DOMAIN f.rows } \ {""}

\* C10: after any uploads and deletions, build_hierarchy_map without a file id
\* returns the records of one stored file and of no other, a file whose uploaded_at
\* no stored file exceeds; it returns nothing when no file is stored.
C10_LatestFileOnly ==
    op = "hierarchy" =>
        IF files = {} THEN resp = <<>>
        ELSE \E f \in files :
                /\ \A g \in files : g.uploaded_at <= f.uploaded_at
                /\ \A i \in DOMAIN resp : resp[i].source_file_id = f.id
                /\ Keys(resp) = KeysOfFile(f)

\* a map built after a deletion, with an older file of other employees still stored
C10_Witness ==
    /\ op = "hierarchy"
    /\ resp # <<>>
    /\ next_id > Cardinality(files) + 1
    /\ \E f, g \in files :
          /\ g.uploaded_at < f.uploaded_at
          /\ resp[1].source_file_id = f.id
          /\ KeysOfFile(g) # KeysOfFile(f)

(***************************************************************************)
(* Properties of the role sync                                             *)
(***************************************************************************)

\* u carries the level of its record in hm and the lists that go with the level:
\* none at "N"; at "N-1" the own function with every department and company of
\* the records of that function; deeper, the own function, department and company
SyncedWith(u, hm) ==
    LET emp == Get(hm, Lower(SyncEmail(u)))
        level == emp.level
    IN  /\ u.role = level
        /\ Strip(u.data_scope_level) = level
        /\ level = "N" =>
              /\ IsListOf(u.allowed_functions, {})
              /\ IsListOf(u.allowed_departments, {})
              /\ IsListOf(u.allowed_companies, {})
        /\ level = "N-1" =>
              /\ IsListOf(u.allowed_functions, Own(emp.function))
              /\ IsListOf(u.allowed_departments, DepartmentsOf(hm, emp.function))
              /\ IsListOf(u.allowed_companies, CompaniesOf(hm, emp.function))
        /\ level \notin {"N", "N-1"} =>
              /\ IsListOf(u.allowed_functions, Own(emp.function))
              /\ IsListOf(u.allowed_departments, Own(emp.department))
              /\ IsListOf(u.allowed_companies, Own(emp.company))

\* C11 as claimed: after a sync over a non-empty hierarchy every non-admin user
\* carries what the current hierarchy gives: the level and persisted scope of its
\* record, and no scope list when the hierarchy has no record for it.
C11_AsClaimed ==
    op = "sync" =>
        \E hm \in LatestMaps :
           hm # <<>> =>
             \A i \in DOMAIN users :
                users[i].role # "admin" =>
                   IF Has(hm, Lower(SyncEmail(users[i])))
                   THEN SyncedWith(users[i], hm)
                   ELSE /\ ~NonEmptyList(users[i].allowed_companies)
                        /\ ~NonEmptyList(users[i].allowed_functions)
                        /\ ~NonEmptyList(users[i].allowed_departments)

\* C11 amended: a sync over a non-empty hierarchy gives every non-admin user whose
\* employee_email (or, when that is unset, email) is the key of a record of the
\* current hierarchy the level of that record as role and data_scope_level and the
\* scope_to_persist_for_user lists of that level; every other row, the admin rows
\* included, is left exactly as it was. Over an empty hierarchy no row changes.
C11_SyncRecomputesLinked ==
    [][ SyncRolesFromHierarchy =>
          \E hm \in LatestMaps :
             \A i \in DOMAIN users :
                IF hm # <<>> /\ users[i].role # "admin" /\ Has(hm, Lower(SyncEmail(users[i])))
                THEN /\ SyncedWith(users'[i], hm)
                     /\ users'[i].email = users[i].email
                     /\ Lower(SyncEmail(users'[i])) = Lower(SyncEmail(users[i]))
                ELSE users'[i] = users[i] ]_vars

\* after a re-upload, a sync moved one user to the level and lists of its record
\* in the new roster, and left an admin row or an unlinked row with its old lists
C11_Witness ==
    /\ op = "sync" /\ resp.updated = 1 /\ Cardinality(files) = 2
    /\ \E hm \in LatestMaps :
          \E i, j \in DOMAIN users :
             /\ users[i].role # "admin" /\ Has(hm, Lower(SyncEmail(users[i])))
             /\ SyncedWith(users[i], hm) /\ users[i].role = "N-1"
             /\ NonEmptyList(users[i].allowed_companies)
             /\ users[j].allowed_functions = StaleLists[1]

(***************************************************************************)
(* Properties of the weekly analysis                                       *)
(***************************************************************************)
\* a time cell that parses to a nonzero time of day
TimeOfDay(s) == TimeToHours(s) > 0 /\ TimeToHours(s) < MinutesPerDay

\* C16: _compute_duration_hours never returns a negative duration, and for a
\* start and an end that both parse to nonzero times of day it returns
\* end - start when end >= start and end + 24h - start when end < start.
C16_Duration ==
    op = "duration" =>
        LET s == TimeToHours(resp.start_str)
            e == TimeToHours(resp.end_str)
        IN  /\ resp.hours >= 0
            /\ (TimeOfDay(resp.start_str) /\ TimeOfDay(resp.end_str)) =>
                  resp.hours = IF e >= s THEN e - s ELSE e + MinutesPerDay - s

\* the overnight shift 22:00 to 06:00 was measured as 8 hours
C16_Witness ==
    /\ op = "duration"
    /\ resp.start_str = "22:00"
    /\ resp.end_str = "06:00"
    /\ resp.hours = 480

\* the call whose response is in resp broke the cells down by department
UsedDeptBreakdown == resp.group_by = "function" /\ resp.breakdown = "department"

\* the attendance rows (by position) bucketed into the cell of a result row
RowsOfCell(r) ==
    { j \in 1..Len(uploaded_rows) :
        /\ Bucketed(uploaded_rows[j], resp.group_by)
        /\ LET key == RowKey(uploaded_rows[j], resp.group_by, UsedDeptBreakdown)
           IN  /\ key[1] = r.week
               /\ key[2] = r.group
               /\ UsedDeptBreakdown =>
                     key[3] = (IF r.department = "" THEN NoDept ELSE r.department) }

\* the result rows of the response, as a set
ResultRows == { resp.results[i] : i \in 1..Len(resp.results) }

\* every row that has a date, a group and an id is in the cell of a result row
EveryRowHasCell ==
    \A j \in 1..Len(uploaded_rows) :
        Bucketed(uploaded_rows[j], resp.group_by) =>
            \E r \in ResultRows : j \in RowsOfCell(r)

\* the sum of f over the positions in S
RECURSIVE SumOver(_, _)
SumOver(S, f) ==
    IF S = {} THEN 0
    ELSE LET j == CHOOSE j \in S : TRUE IN f[j] + SumOver(S \ {j}, f)

\* the durations and the flag of the row at position j
ShiftOf(j) == ComputeDurationHours(Strip(uploaded_rows[j].shift_in), Strip(uploaded_rows[j].shift_out))
WorkOf(j) == ComputeDurationHours(Strip(uploaded_rows[j].in_time), Strip(uploaded_rows[j].out_time))
FlagOf(j) == Strip(uploaded_rows[j].flag)
PresentOrOnDuty(j) == FlagOf(j) = "P" \/ FlagOf(j) = "OD"

\* C12 as claimed: a row adds shift_hours - work_hours to the lost hours of
\* its cell exactly when its flag is P or OD and 0 < work_hours < shift_hours.
C12_AsClaimed ==
    op = "weekly_analysis" =>
        \A r \in ResultRows :
            r.lost_hours =
                RoundHours(SumOver(RowsOfCell(r),
                    [j \in 1..Len(uploaded_rows) |->
                        IF PresentOrOnDuty(j) /\ 0 < WorkOf(j) /\ WorkOf(j) < ShiftOf(j)
                        THEN ShiftOf(j) - WorkOf(j) ELSE 0]))

\* C12: a row adds shift_hours - work_hours to the lost hours of its cell
\* exactly when its flag is P or OD and work_hours < shift_hours; a P or OD
\* row with a shift and work_hours = 0 adds the whole shift.
C12_LostHours ==
    op = "weekly_analysis" =>
        /\ EveryRowHasCell
        /\ \A r \in ResultRows :
              r.lost_hours =
                  RoundHours(SumOver(RowsOfCell(r),
                      [j \in 1..Len(uploaded_rows) |->
                          IF PresentOrOnDuty(j) /\ WorkOf(j) < ShiftOf(j)
                          THEN ShiftOf(j) - WorkOf(j) ELSE 0]))

\* a cell holds a late row that lost one hour and a row without attendance
\* times that lost its shift of eight hours
C12_Witness ==
    /\ op = "weekly_analysis"
    /\ \E r \in ResultRows :
          /\ r.lost_hours = 900
          /\ \E j \in RowsOfCell(r) : PresentOrOnDuty(j) /\ WorkOf(j) = 0 /\ ShiftOf(j) = 480
          /\ \E j \in RowsOfCell(r) : PresentOrOnDuty(j) /\ WorkOf(j) = 420 /\ ShiftOf(j) = 480

\* the P and OD rows of a cell with a nonzero shift or work duration
WorkDayRows(r) ==
    { j \in RowsOfCell(r) : PresentOrOnDuty(j) /\ (ShiftOf(j) # 0 \/ WorkOf(j) # 0) }

\* C13: a row adds one to the total work days of its cell exactly when its
\* flag is P or OD and one of shift_hours, work_hours is nonzero, and one to
\* the completed count exactly when, in addition, work_hours >= shift_hours
\* > 0; completion_pct is completed / total work days * 100 to two decimals,
\* and 0.0 when the cell has no work day.
C13_Completion ==
    op = "weekly_analysis" =>
        /\ EveryRowHasCell
        /\ \A r \in ResultRows :
              /\ r.total_days = Cardinality(WorkDayRows(r))
              /\ r.completed =
                    Cardinality({ j \in WorkDayRows(r) :
                                    WorkOf(j) >= ShiftOf(j) /\ ShiftOf(j) > 0 })
              /\ r.total_days = 0 => r.completion_pct = 0
              /\ r.total_days > 0 =>
                    /\ 2 * (r.completion_pct * r.total_days - 10000 * r.completed) <= r.total_days
                    /\ 2 * (10000 * r.completed - r.completion_pct * r.total_days) <= r.total_days

\* a cell with three work days of which one is complete: 33.33 per cent; one
\* of its rows has work hours but no shift and is not complete
C13_Witness ==
    /\ op = "weekly_analysis"
    /\ \E r \in ResultRows :
          /\ r.total_days = 3
          /\ r.completed = 1
          /\ r.completion_pct = 3333
          /\ \E j \in WorkDayRows(r) : ShiftOf(j) = 0 /\ WorkOf(j) > 0

\* a start or end time of the row at position j is zero-valued or unparseable
ZeroShiftTime(j) ==
    TimeToHours(Strip(uploaded_rows[j].shift_in)) = 0 \/ TimeToHours(Strip(uploaded_rows[j].shift_out)) = 0
ZeroWorkTime(j) ==
    TimeToHours(Strip(uploaded_rows[j].in_time)) = 0 \/ TimeToHours(Strip(uploaded_rows[j].out_time)) = 0

\* the row at position j is marked late
LateOf(j) == Lower(Strip(uploaded_rows[j].is_late)) = "yes"

\* the dedup key of the row at position j
DedupKey(j) ==
    IF Strip(uploaded_rows[j].employee_code) # ""
    THEN Strip(uploaded_rows[j].employee_code)
    ELSE Strip(uploaded_rows[j].name)

\* C14 as claimed: a P or OD row with a zero-valued or unparseable time in
\* either pair is left out of the shift-hour sum, of the work-hour sum and of
\* the total work days of its cell.
C14_AsClaimed ==
    op = "weekly_analysis" =>
        \A r \in ResultRows :
            LET counted == { j \in RowsOfCell(r) :
                               PresentOrOnDuty(j) /\ ~ZeroShiftTime(j) /\ ~ZeroWorkTime(j) }
            IN  /\ r.total_days = Cardinality(counted)
                /\ r.shift_hours =
                      RoundHours(SumOver(counted, [j \in 1..Len(uploaded_rows) |-> ShiftOf(j)]))
                /\ r.work_hours =
                      RoundHours(SumOver(counted, [j \in 1..Len(uploaded_rows) |-> WorkOf(j)]))

\* C14: a zero-valued or unparseable start or end gives its pair the duration
\* 0; a P or OD row is left out of the total work days and of the shift-hour
\* and work-hour sums of its cell exactly when both its durations are 0, and
\* otherwise enters them with the duration 0 for the affected pair; in either
\* case its id is in the member set, and a P row is in the present and late
\* or on-time counters.
C14_ZeroDurations ==
    op = "weekly_analysis" =>
        /\ EveryRowHasCell
        /\ \A j \in 1..Len(uploaded_rows) :
              /\ ZeroShiftTime(j) => ShiftOf(j) = 0
              /\ ZeroWorkTime(j) => WorkOf(j) = 0
        /\ \A r \in ResultRows :
              LET counted == { j \in RowsOfCell(r) :
                                 PresentOrOnDuty(j) /\ ~(ShiftOf(j) = 0 /\ WorkOf(j) = 0) }
                  present == { j \in RowsOfCell(r) : FlagOf(j) = "P" }
              IN  /\ r.total_days = Cardinality(counted)
                  /\ r.shift_hours =
                        RoundHours(SumOver(counted, [j \in 1..Len(uploaded_rows) |-> ShiftOf(j)]))
                  /\ r.work_hours =
                        RoundHours(SumOver(counted, [j \in 1..Len(uploaded_rows) |-> WorkOf(j)]))
                  /\ r.members = Cardinality({ DedupKey(j) : j \in RowsOfCell(r) })
                  /\ r.present = Cardinality(present)
                  /\ r.late = Cardinality({ j \in present : LateOf(j) })
                  /\ r.on_time = Cardinality({ j \in present : ~LateOf(j) })

\* a cell with a present row whose shift start does not parse, counted as a
\* work day of eight work hours without shift hours, and a present row whose
\* durations are both 0, counted as present only
C14_Witness ==
    /\ op = "weekly_analysis"
    /\ \E r \in ResultRows :
          /\ \E j \in RowsOfCell(r) : FlagOf(j) = "P" /\ ZeroShiftTime(j) /\ WorkOf(j) = 480
          /\ \E j \in RowsOfCell(r) : FlagOf(j) = "P" /\ ShiftOf(j) = 0 /\ WorkOf(j) = 0
          /\ r.total_days = 1
          /\ r.shift_hours = 0
          /\ r.work_hours = 800
          /\ r.present = 2

\* the table without the row at position j
WithoutRow(j) ==
    [i \in 1..(Len(uploaded_rows) - 1) |->
        IF i < j THEN uploaded_rows[i] ELSE uploaded_rows[i + 1]]

\* the fields of a result row that hold sums, counters and percentages
CounterFields ==
    { "shift_hours", "work_hours", "lost_hours", "lost", "lost_pct", "completed",
      "total_days", "completion_pct", "present", "late", "on_time", "on_time_pct",
      "sl", "cl", "a", "sl_pct", "cl_pct", "a_pct" }

\* the weekend and holiday rows that reach the aggregation
WeekendRows ==
    { j \in 1..Len(uploaded_rows) :
        /\ FlagOf(j) \in {"W", "H"}
        /\ Bucketed(uploaded_rows[j], resp.group_by) }

\* the result row of the cell of the row at position j
ResultOf(j) == CHOOSE r \in ResultRows : j \in RowsOfCell(r)

\* the result rows of the same cell as r when the analysis runs without the
\* row at position j: one row, or none when the cell held that row alone
CellWithout(r, j) ==
    LET without == ComputeWeeklyAnalysis(WithoutRow(j), resp.group_by, resp.breakdown).results
    IN  { x \in { without[i] : i \in 1..Len(without) } :
            /\ x.week = r.week
            /\ x.group = r.group
            /\ UsedDeptBreakdown => x.department = r.department }

\* the sums, counters and percentages of the cell are those it has without
\* the row at position j, and its member counts are those of the ids
SameCounters(j) ==
    LET r == ResultOf(j) IN
    /\ \A x \in CellWithout(r, j) : \A f \in CounterFields : r[f] = x[f]
    /\ CellWithout(r, j) = {} => \A f \in CounterFields : r[f] = 0
    /\ r.members = Cardinality({ DedupKey(i) : i \in RowsOfCell(r) })
    /\ r.leave_members = Cardinality({ DedupKey(i) : i \in RowsOfCell(r) })

\* C15 as claimed: a row whose flag is W or H only adds its id to the member
\* set and the leave-member set of its cell.
C15_AsClaimed ==
    op = "weekly_analysis" =>
        \A j \in WeekendRows :
            /\ SameCounters(j)
            /\ \A x \in CellWithout(ResultOf(j), j) : x.department = ResultOf(j).department

\* C15: a row whose flag is W or H leaves the shift-hour, work-hour and
\* lost-hour sums, the completed count, the total work days and the present,
\* late and on-time counters of its cell unchanged, whatever times it
\* carries; it adds its id to the member set and the leave-member set and,
\* when the cells are not broken down by department, its department name to
\* the departments of the cell.
C15_WeekendHoliday ==
    op = "weekly_analysis" =>
        \A j \in WeekendRows :
            /\ \E r \in ResultRows : j \in RowsOfCell(r)
            /\ SameCounters(j)
            /\ \A x \in CellWithout(ResultOf(j), j) :
                  LET r == ResultOf(j)
                      own == Strip(uploaded_rows[j].department)
                      others == { Strip(uploaded_rows[i].department) : i \in RowsOfCell(r) \ {j} } \ {""}
                  IN  \/ x.department = r.department
                      \/ /\ ~UsedDeptBreakdown
                         /\ own \notin others \cup {""}
                         /\ r.department = JoinComma(SortedSeq(others \cup {own}))
                         /\ x.department = JoinComma(SortedSeq(others))

\* a weekend row that carries a shift and attendance times shares a cell with
\* a present row of another employee and another department
C15_Witness ==
    /\ op = "weekly_analysis"
    /\ \E j \in WeekendRows :
          /\ ShiftOf(j) > 0
          /\ WorkOf(j) > 0
          /\ WorkOf(j) < ShiftOf(j)
          /\ ResultOf(j).members = 2
          /\ ResultOf(j).present = 1
          /\ ResultOf(j).lost_hours = 0
          /\ ResultOf(j).department = "Dev, Ops"

\* the rows with a date, a group and a dedup key whose date, group and
\* department are those of a result row
RowsOfCellByKey(r) ==
    { j \in 1..Len(uploaded_rows) :
        /\ ParseDate(Strip(uploaded_rows[j].date)) # <<>>
        /\ GroupVal(uploaded_rows[j], resp.group_by) # ""
        /\ DedupKey(j) # ""
        /\ LET key == RowKey(uploaded_rows[j], resp.group_by, UsedDeptBreakdown)
           IN  /\ key[1] = r.week
               /\ key[2] = r.group
               /\ UsedDeptBreakdown =>
                     key[3] = (IF r.department = "" THEN NoDept ELSE r.department) }

\* C17: members of every result row is the number of distinct dedup keys among
\* the attendance rows of its cell, the key of a row being its Employee Code
\* if non-empty and otherwise its Name; a row with neither is skipped: the
\* results are those of the table without it.
C17_UniqueMembers ==
    op = "weekly_analysis" =>
        /\ \A r \in ResultRows :
              /\ r.members = Cardinality({ DedupKey(j) : j \in RowsOfCellByKey(r) })
              /\ r.members >= 1
        /\ \A j \in 1..Len(uploaded_rows) :
              IF DedupKey(j) = ""
              THEN resp.results =
                      ComputeWeeklyAnalysis(WithoutRow(j), resp.group_by, resp.breakdown).results
              ELSE (ParseDate(Strip(uploaded_rows[j].date)) # <<>>
                       /\ GroupVal(uploaded_rows[j], resp.group_by) # "")
                      => \E r \in ResultRows : j \in RowsOfCellByKey(r)

\* a cell of three rows and two members: two rows carry the same key, and one
\* row has no Employee Code and is counted by its Name
C17_Witness ==
    /\ op = "weekly_analysis"
    /\ \E r \in ResultRows :
          /\ Cardinality(RowsOfCellByKey(r)) = 3
          /\ r.members = 2
          /\ \E j \in RowsOfCellByKey(r) :
                Strip(uploaded_rows[j].employee_code) = "" /\ DedupKey(j) = Strip(uploaded_rows[j].name)

(***************************************************************************)
(* Properties of the scope filter                                          *)
(***************************************************************************)
\* the normalised members of an allow-list of the scope in resp: stripped,
\* lower-cased, blank entries dropped
Normalised(list) ==
    IF list.none THEN {}
    ELSE { Lower(Strip(list.items[i])) :
             i \in { k \in 1..Len(list.items) : Strip(list.items[k]) # "" } }

\* none of the three allow-lists of the scope has a member after normalisation
NoAllowLists(scope) ==
    /\ Normalised(scope.allowed_functions) = {}
    /\ Normalised(scope.allowed_departments) = {}
    /\ Normalised(scope.allowed_companies) = {}

\* C19: _filter_weekly_by_scope returns its input list unchanged, same rows in
\* the same order, when scope.all is true, and when scope.all is false but the
\* three allow-lists are empty after normalisation, for every group_by.
C19_PassThrough ==
    (op = "filter" /\ (resp.scope.all \/ NoAllowLists(resp.scope)))
        => resp.out = resp.result

\* a scope that is not all and whose only list entry is blank let two rows
\* through
C19_Witness ==
    /\ op = "filter"
    /\ ~resp.scope.all
    /\ resp.scope.allowed_functions = L(<<" ">>)
    /\ NoAllowLists(resp.scope)
    /\ Len(resp.result) = 2
    /\ resp.out = resp.result

\* the allowed-company set of the scope in resp: the normalised names and the
\* short names of those that have one
AllowedCompanySet == 
    Normalised(resp.scope.allowed_companies)
        \cup { CompanyToShort(c) : c \in Normalised(resp.scope.allowed_companies) }

\* the allowed-company set names one of the known short names
ScopeOfMappedCompany == \E c \in AllowedCompanySet : c \in {"cbl", "ciplc", "csel"}

\* the rows handed to the filter and the rows it returned
InputRows == { resp.result[i] : i \in 1..Len(resp.result) }
OutputRows == { resp.out[i] : i \in 1..Len(resp.out) }

\* the group label of a result row has a company prefix, and the prefix
HasCompanyPrefix(r) == HasDash(Lower(Strip(r.group)))
CompanyPrefix(r) == DashPrefix(Lower(Strip(r.group)))

\* the row matches the allowed functions of the scope in resp (every row
\* does when the scope names no function)
MatchesAllowedFunctions(r) ==
    LET allowed == Normalised(resp.scope.allowed_functions)
        group_lower == Lower(Strip(r.group))
    IN  \/ allowed = {}
        \/ FunctionMatchesScope(IF HasDash(group_lower) THEN DashRest(group_lower) ELSE group_lower,
                                group_lower, AllowedFunctionMatchSet(allowed))

\* the department stage lets the row through
PassesDepartmentStage(r) ==
    LET allowed == Normalised(resp.scope.allowed_departments)
        row_depts == SplitComma(Strip(r.department))
    IN  \/ allowed = {}
        \/ row_depts = {}
        \/ \E d \in row_depts : DeptMatches(d, allowed)

FunctionByDepartment ==
    op = "weekly" /\ resp.group_by = "function" /\ resp.breakdown = "department"

\* the unfiltered result rows behind the response
FullResult == ComputeWeeklyAnalysis(uploaded_rows, resp.group_by, resp.breakdown).results

\* C18: for GET /work_hour/weekly/function with breakdown=department over the
\* same attendance table, roster and rates, company_wise_full and
\* company_totals_full of the response are the same for the caller and for
\* every other user, whatever their scopes, while data holds only rows that
\* pass _filter_weekly_by_scope for the caller.
C18_RollupScopeIndependent ==
    FunctionByDepartment =>
        \A hm \in LatestMaps :
            /\ \A other \in WeeklyUsers :
                  LET body == WeeklyAnalysisResponse(uploaded_rows, app_config, other, hm,
                                                     "function", "department")
                  IN  /\ body.company_wise_full = resp.company_wise_full
                      /\ body.company_totals_full = resp.company_totals_full
            /\ LET passing == FilterWeeklyByScope(FullResult, "function",
                                                  GetEffectiveScope(user, hm))
               IN  \A i \in 1..Len(resp.data) :
                      \E k \in 1..Len(passing) : passing[k] = resp.data[i]

\* a caller whose scope hides one of two result rows is returned one data row
\* and the rollup of both companies, with the cost of the hidden one
C18_Witness ==
    /\ FunctionByDepartment
    /\ user.role # "admin"
    /\ Len(FullResult) = 2
    /\ Len(resp.data) = 1
    /\ ~resp.company_wise_full.none
    /\ ~resp.company_totals_full.none
    /\ Len(resp.company_wise_full.rows) = 2
    /\ \A i \in 1..2 : resp.company_wise_full.rows[i].cost > 0

\* the filter was called with this grouping and a scope that is neither all
\* nor without allow-lists
Restrictive(group_by) ==
    op = "filter" /\ resp.group_by = group_by /\ ~resp.scope.all /\ ~NoAllowLists(resp.scope)

\* the scopes of the model that differ from the scope in resp at most in
\* the allowed functions and are restrictive too
SameButFunctions ==
    { s \in FilterScopes : /\ ~s.all
                           /\ ~NoAllowLists(s)
                           /\ s.allowed_departments = resp.scope.allowed_departments
                           /\ s.allowed_companies = resp.scope.allowed_companies }

\* C21 as stated: with group_by = "company" and a restrictive scope a row is
\* kept if and only if its group label, lower-cased, is a member of the
\* allowed-company set.
C21_AsClaimed ==
    Restrictive("company") =>
        \A r \in InputRows : r \in OutputRows <=> Lower(Strip(r.group)) \in AllowedCompanySet

\* C21: with group_by = "company" and a restrictive scope a row is kept if
\* and only if its group label, lower-cased, is a member of the
\* allowed-company set or that set is empty, and the row passes the
\* department stage; the allowed functions play no role: every restrictive
\* scope with the same departments and companies yields the same output.
C21_CompanyMatch ==
    Restrictive("company") =>
        /\ \A r \in InputRows :
              r \in OutputRows <=>
                  /\ AllowedCompanySet = {} \/ Lower(Strip(r.group)) \in AllowedCompanySet
                  /\ PassesDepartmentStage(r)
        /\ \A s \in SameButFunctions :
              FilterWeeklyByScope(resp.result, "company", s) = resp.out

\* a user scoped to Confidence Batteries Limited is returned the CBL row and
\* not the CIPLC row
C21_Witness ==
    /\ Restrictive("company")
    /\ "cbl" \in AllowedCompanySet
    /\ Normalised(resp.scope.allowed_departments) = {}
    /\ \E r \in OutputRows : r.group = "CBL"
    /\ \E r \in InputRows \ OutputRows : r.group = "CIPLC"

\* C22 as stated: with group_by = "location" the output equals the input
\* list for every scope.
C22_AsClaimed ==
    (op = "filter" /\ resp.group_by = "location") => resp.out = resp.result

\* C22: with group_by = "location" no test on the group label is applied:
\* the output is the input list when the scope is all, and otherwise the
\* rows of the input, in their order, that pass the department stage; so it
\* is the whole input list whenever the scope allows no department.
C22_LocationUnfiltered ==
    (op = "filter" /\ resp.group_by = "location") =>
        /\ resp.scope.all => resp.out = resp.result
        /\ ~resp.scope.all =>
              resp.out = SelectSeq(resp.result, LAMBDA r : PassesDepartmentStage(r))
        /\ Normalised(resp.scope.allowed_departments) = {} => resp.out = resp.result

\* a user scoped to the company CIPLC and the function IT, without
\* departments, is returned both location rows
C22_Witness ==
    /\ op = "filter"
    /\ resp.group_by = "location"
    /\ ~resp.scope.all
    /\ AllowedCompanySet = {"ciplc"}
    /\ Normalised(resp.scope.allowed_functions) = {"it"}
    /\ Normalised(resp.scope.allowed_departments) = {}
    /\ Len(resp.result) = 2
    /\ resp.out = resp.result

\* the rows the filter returns for the scope in resp without its allowed
\* departments: the rows that pass the group stage
GroupStageRows ==
    LET s == [resp.scope EXCEPT !.allowed_departments = L(<<>>)]
        kept == FilterWeeklyByScope(resp.result, resp.group_by, s)
    IN  { kept[i] : i \in 1..Len(kept) }

\* the comma-split department values of a result row, lower-cased
DepartmentValues(r) == { Lower(Strip(d)) : d \in SplitComma(Strip(r.department)) }

\* the value equals, contains or is contained in the allowed department
LenientMatch(d, a) ==
    \/ d = a
    \/ <<a, d>> \in SubstringPairs
    \/ <<d, a>> \in SubstringPairs

\* C23: when the scope is not all and allows at least one department, the
\* output is made of rows that passed the group stage, and such a row is
\* excluded if and only if its department field has at least one comma-split
\* value and none of the values equals, contains or is contained in an
\* allowed department, case-insensitively; a row without department data is
\* never excluded by this stage.
C23_DepartmentStage ==
    (op = "filter" /\ ~resp.scope.all /\ Normalised(resp.scope.allowed_departments) # {}) =>
        /\ OutputRows \subseteq GroupStageRows
        /\ \A r \in GroupStageRows :
              r \notin OutputRows <=>
                  /\ DepartmentValues(r) # {}
                  /\ \A d \in DepartmentValues(r) :
                        \A a \in Normalised(resp.scope.allowed_departments) :
                            ~LenientMatch(d, a)
        /\ \A r \in GroupStageRows : DepartmentValues(r) = {} => r \in OutputRows

\* a user allowed the department Dev is returned the row of department
\* Development and the row without a department, and not the row of Ops
C23_Witness ==
    /\ op = "filter"
    /\ ~resp.scope.all
    /\ Normalised(resp.scope.allowed_departments) = {"dev"}
    /\ \E r \in OutputRows : r.department = "Development"
    /\ \E r \in GroupStageRows \ OutputRows : r.department = "Ops"

(***************************************************************************)
(* Properties of the level assignment                                      *)
(***************************************************************************)
\* the records without a resolved parent in the roster
FreeRoots(hm) == { e \in Keys(hm) : ParentIn(hm, e) \notin Keys(hm) }

\* C24: in a built map with at least one record that qualifies as a root,
\* every record that no root leads to through manager links (the members of
\* a reporting cycle, a record that is its own manager, and whatever hangs
\* under them) has level "N-2".
C24_UnreachableDefault ==
    (op = "hierarchy" /\ FreeRoots(resp) # {}) =>
        \A e \in Keys(resp) :
            ~(\E r \in FreeRoots(resp) : Under(resp, r, e)) => Get(resp, e).level = "N-2"

\* a built map with a root, a record that is its own manager and a record
\* under that one, both at "N-2"
C24_Witness ==
    /\ op = "hierarchy"
    /\ FreeRoots(resp) # {}
    /\ \E e, x \in Keys(resp) :
          /\ e # x
          /\ ParentIn(resp, e) = e
          /\ ParentIn(resp, x) = e
          /\ Get(resp, e).level = "N-2"
          /\ Get(resp, x).level = "N-2"

\* the keys of the rows of the stored roster that carry an e-mail
RosterKeys ==
    UNION { { Lower(GetCell(f.rows[i], "email")) :
                i \in { k \in DOMAIN f.rows : GetCell(f.rows[k], "email") # "" } } :
            f \in files }

\* C25: when no record of the roster qualifies as a root (each has a
\* resolved parent in the roster), the build returns a map with every record
\* of the roster, each at level "N".
C25_ZeroRootFallback ==
    (op = "hierarchy" /\ FreeRoots(resp) = {}) =>
        /\ Keys(resp) = RosterKeys
        /\ \A e \in Keys(resp) : Get(resp, e).level = "N"

\* a roster of three records in which every record has a manager in the
\* roster was built
C25_Witness ==
    /\ op = "hierarchy"
    /\ FreeRoots(resp) = {}
    /\ Cardinality(Keys(resp)) = 3
    /\ \A e \in Keys(resp) : ParentIn(resp, e) \in Keys(resp) /\ Get(resp, e).level = "N"

(***************************************************************************)
(* Properties of the breadth-first loops                                   *)
(***************************************************************************)
\* a loop is running or has ended
InLoop == op \in {"level_bfs", "level_done", "subordinate_bfs", "subordinate_done"}

\* no key was assigned a level, or added to the result, more than once
WrittenOnce == InLoop => \A e \in DOMAIN resp.writes : resp.writes[e] <= 1

\* the loop that ended produced what the build and get_subordinate_emails
\* return
LoopResult ==
    /\ op = "level_done" =>
          \A hm \in LatestMaps :
              \A e \in Keys(hm) :
                  Get(hm, e).level = IF e \in DOMAIN resp.level_map
                                     THEN resp.level_map[e] ELSE "N-2"
    /\ op = "subordinate_done" =>
          resp.out = GetSubordinateEmails(resp.hierarchy_map, resp.child_map,
                                          resp.employee_email)

\* C26: on every roster, rosters whose manager links form cycles or
\* self-loops included, the loop of build_hierarchy_map and the loop of
\* get_subordinate_emails come to their end, and no record is assigned a
\* level, or added to the result, more than once.
C26_Terminates ==
    /\ <>(op \in {"level_done", "subordinate_done"})
    /\ [](WrittenOnce /\ LoopResult)

\* the loop of the build ended on a roster of three records that manage one
\* another in a cycle, each written once
C26_Witness ==
    /\ op = "level_done"
    /\ Cardinality(DOMAIN resp.child_map) = 3
    /\ \A e \in DOMAIN resp.writes : resp.writes[e] = 1

(***************************************************************************)
(* Properties of the company and month aggregate                           *)
(***************************************************************************)
\* the (week, group, department) cells of the stored rows
DeptCells == Aggregate(uploaded_rows, Len(uploaded_rows), "function", TRUE)

\* the month of a cell, "YYYY-MM"
CellMonth(key) == MonthKey(ParseWeekKey(key[1])[1], ParseWeekKey(key[1])[2])

\* whether a group label is the company or starts with the company and " - "
LabelOfCompany(label, company) ==
    \/ /\ label = company
       /\ \A p \in GroupCompanies, f \in GroupFunctions : label # p \o " - " \o f
    \/ \E f \in GroupFunctions : label = company \o " - " \o f

\* the cells of a month and company
CellsOf(ck) ==
    { key \in DOMAIN DeptCells : CellMonth(key) = ck[1] /\ LabelOfCompany(key[2], ck[2]) }

\* the sum of a quantity, given per cell, over a set of cells
RECURSIVE CellSum(_, _)
CellSum(quantity, S) ==
    IF S = {} THEN 0
    ELSE LET key == CHOOSE key \in S : TRUE
         IN  quantity[key] + CellSum(quantity, S \ {key})

\* C27: with group_by "function" and breakdown "department" the second
\* result has one entry per (month, company) of the cells; its shift_hours,
\* work_hours and lost are the sums over the (week, group, department) cells
\* of that month whose group label has that company prefix, and its members
\* are the distinct member ids of those cells; for every other combination
\* of group_by and breakdown the second result is null.
C27_CompanyMonthAgg ==
    op = "weekly_analysis" =>
        IF resp.group_by = "function" /\ resp.breakdown = "department"
        THEN /\ ~resp.company_month_agg.none
             /\ \A key \in DOMAIN DeptCells :
                   \E ck \in DOMAIN resp.company_month_agg.agg : key \in CellsOf(ck)
             /\ \A ck \in DOMAIN resp.company_month_agg.agg :
                   /\ CellsOf(ck) # {}
                   /\ resp.company_month_agg.agg[ck].shift_hours =
                          CellSum([key \in DOMAIN DeptCells |-> DeptCells[key].shift_hours],
                                  CellsOf(ck))
                   /\ resp.company_month_agg.agg[ck].work_hours =
                          CellSum([key \in DOMAIN DeptCells |-> DeptCells[key].work_hours],
                                  CellsOf(ck))
                   /\ resp.company_month_agg.agg[ck].lost =
                          CellSum([key \in DOMAIN DeptCells |-> DeptCells[key].lost_hours],
                                  CellsOf(ck))
                   /\ resp.company_month_agg.agg[ck].members =
                          { m \in UNION { DeptCells[key].members : key \in DOMAIN DeptCells } :
                              \E key \in CellsOf(ck) : m \in DeptCells[key].members }
        ELSE resp.company_month_agg.none

\* an entry summed over cells of two weeks and two departments in which the
\* same employee appears, with lost hours, was returned
C27_Witness ==
    /\ op = "weekly_analysis"
    /\ resp.group_by = "function" /\ resp.breakdown = "department"
    /\ \E ck \in DOMAIN resp.company_month_agg.agg :
          /\ \E k1, k2 \in CellsOf(ck) :
                /\ k1[1] # k2[1] /\ k1[3] # k2[3]
                /\ DeptCells[k1].members \cap DeptCells[k2].members # {}
                /\ DeptCells[k1].shift_hours > 0 /\ DeptCells[k2].shift_hours > 0
          /\ resp.company_month_agg.agg[ck].lost > 0
          /\ Cardinality(resp.company_month_agg.agg[ck].members) = 1

(***************************************************************************)
(* Properties of the counters of the result rows                           *)
(***************************************************************************)
\* the rows of the stored table that reach the aggregation under the key of
\* a result row
RowsOfResult(r) ==
    { i \in 1..Len(uploaded_rows) :
        /\ Bucketed(uploaded_rows[i], resp.group_by)
        /\ LET key == RowKey(uploaded_rows[i], resp.group_by,
                             resp.group_by = "function" /\ resp.breakdown = "department")
           IN  /\ key[1] = r.week /\ key[2] = r.group
               /\ Len(key) = 3 => r.department = (IF key[3] = NoDept THEN "" ELSE key[3]) }

\* C28: in every output row present = late + on_time, completed is at most
\* total_days, the three leave percentages are taken over sl + cl + a leave
\* days, and leave_members equals members: every row that adds a member
\* adds it to the leave-member set, whatever its flag.
C28_CounterInvariants ==
    op = "weekly_analysis" =>
        \A r \in ResultRows :
            /\ r.present = r.late + r.on_time
            /\ r.completed <= r.total_days
            /\ r.sl_pct = Pct(r.sl, r.sl + r.cl + r.a)
            /\ r.cl_pct = Pct(r.cl, r.sl + r.cl + r.a)
            /\ r.a_pct = Pct(r.a, r.sl + r.cl + r.a)
            /\ r.leave_members = r.members
            /\ r.members = Cardinality({ MemberId(uploaded_rows[i]) : i \in RowsOfResult(r) })

\* an output row fed by a late and an on-time present day, a leave day of a
\* second employee and no leave day of the first was returned
C28_Witness ==
    /\ op = "weekly_analysis"
    /\ \E r \in ResultRows :
          /\ r.late > 0 /\ r.on_time > 0
          /\ r.sl + r.cl + r.a > 0
          /\ r.total_days > r.completed /\ r.completed > 0
          /\ r.members = 2 /\ r.leave_members = 2
          /\ \E i \in RowsOfResult(r) :
                \A j \in RowsOfResult(r) :
                    MemberId(uploaded_rows[j]) = MemberId(uploaded_rows[i])
                        => Strip(uploaded_rows[j].flag) \notin {"SL", "CL", "A"}

(***************************************************************************)
(* Properties of the ranges of the result rows                             *)
(***************************************************************************)
\* the cells of the stored rows under the grouping of the response
ResponseCells ==
    Aggregate(uploaded_rows, Len(uploaded_rows), resp.group_by,
              resp.group_by = "function" /\ resp.breakdown = "department")

\* 0 to 100 per cent, in hundredths of a per cent
PctRange == 0..10000

\* C29: in every cell the accumulated lost hours are never negative and
\* never exceed the accumulated shift hours, so lost_pct lies in [0, 100];
\* on_time_pct and completion_pct lie in [0, 100] as well.
C29_LostWithinShift ==
    op = "weekly_analysis" =>
        /\ \A key \in DOMAIN ResponseCells :
              /\ ResponseCells[key].lost_hours >= 0
              /\ ResponseCells[key].lost_hours <= ResponseCells[key].shift_hours
        /\ \A r \in ResultRows :
              /\ r.lost_hours >= 0 /\ r.lost_hours <= r.shift_hours
              /\ r.lost_pct \in PctRange
              /\ r.on_time_pct \in PctRange
              /\ r.completion_pct \in PctRange

\* an output row with lost hours below its shift hours, fed by a day whose
\* shift could not be read and by a short day, with percentages strictly
\* between 0 and 100, was returned
C29_Witness ==
    /\ op = "weekly_analysis"
    /\ \E r \in ResultRows :
          /\ r.lost_hours > 0 /\ r.lost_hours < r.shift_hours
          /\ r.lost_pct > 0 /\ r.lost_pct < 10000
          /\ r.on_time_pct > 0 /\ r.on_time_pct < 10000
          /\ r.completion_pct = 0
          /\ \E i \in RowsOfResult(r) :
                /\ ComputeDurationHours(uploaded_rows[i].shift_in, uploaded_rows[i].shift_out) = 0
                /\ ComputeDurationHours(uploaded_rows[i].in_time, uploaded_rows[i].out_time) > 0
                /\ Strip(uploaded_rows[i].flag) = "P"

====
